---- MODULE Spec2Model ----
(***************************************************************************)
(* Model of the migration planner of neo4j-graph-tool-core (package        *)
(* migrator): Planner.Plan with planFolder / planUpgrade / planDowngrade,  *)
(* the DatabaseModel queries and the MigrationScripts helpers.             *)
(*                                                                         *)
(* A semantic version is modelled by a positive integer (only the order    *)
(* and equality of versions are used by the planner); 0 stands for a nil   *)
(* *semver.Version.  A MigrationFile keeps FolderName, Timestamp,          *)
(* IsDowngrade and IsSnapshot; its Path is represented by Dir, the         *)
(* identity of the version directory the scanner found it in.              *)
(***************************************************************************)
EXTENDS Integers, Sequences, FiniteSets, TLC

\* ------------------------------------------------------------------------
\* Bounds of the model
\* ------------------------------------------------------------------------
MaxVersion == 2
MaxTs == 2
MaxRevision == 1
MaxEntries == 2
MaxFiles == 2
MaxApplied == 2
MaxSteps == 3
MaxArgs == 2
MaxBuf == 3
MaxLines == 2
MaxArtifacts == 2
MaxNames == 4
MaxShown == 5
MaxDirs == 2
MaxPrints == 2
MaxCalls == 2
MaxProcs == 2
MaxUtilities == 2
Updaters == {"upd1", "upd2"}

Versions == 1..MaxVersion
Timestamps == 1..MaxTs

\* math.MaxInt64, the revision cap used when the target revision is 0, scaled
\* to the integer width of the model checker: no timestamp exceeds it.
MaxInt64 == 2147483647

\* ------------------------------------------------------------------------
\* Configuration (the planner configuration the repository's tests use)
\* ------------------------------------------------------------------------
SchemaFolderName == "schema"

Folders == {"data", "perf"}

AllFolders == {SchemaFolderName} \cup Folders

MigrationType == [f \in AllFolders |-> IF f = "data" THEN "change" ELSE "up_down"]

Batches == ("seed" :> <<"data">>) @@ ("perf-seed" :> <<"data", "perf">>)

\* The batch names a Plan call is tried with: the implicit one, a declared
\* one and an undeclared one.
BatchInputs == {"schema", "perf-seed", "super-duper-batch"}

\* The folders that hold artifacts in the catalogs and database models of
\* the model: the schema folder and one auxiliary folder of the batch (the
\* other folder of the batch has no directory, so its scripts are nil).
UsedFolders == {"schema", "perf"}

\* ------------------------------------------------------------------------
\* Types
\* ------------------------------------------------------------------------
MigrationFile(folder, dir, ts, down, snap) ==
    [FolderName |-> folder, Dir |-> dir, Timestamp |-> ts,
     IsDowngrade |-> down, IsSnapshot |-> snap]

EmptyScripts == [Up |-> <<>>, Down |-> <<>>]

NilTarget == [IsNil |-> TRUE, Version |-> 0, Revision |-> 0]

Range(s) == {s[k] : k \in DOMAIN s}

RECURSIVE Ascending(_)
Ascending(S) ==
    IF S = {} THEN <<>>
    ELSE LET m == CHOOSE x \in S : \A y \in S : x <= y
         IN <<m>> \o Ascending(S \ {m})

RECURSIVE Descending(_)
Descending(S) ==
    IF S = {} THEN <<>>
    ELSE LET m == CHOOSE x \in S : \A y \in S : x >= y
         IN <<m>> \o Descending(S \ {m})

\* All orders a sort.Slice call may leave s in: every permutation of s that
\* is ordered by the less function (sort.Slice is not stable). lt holds the
\* pairs of indices <<i, j>> of s with less(s[i], s[j]).
SortSlice(s, lt) ==
    {[k \in 1..Len(s) |-> s[p[k]]] : p \in
        {q \in Permutations(1..Len(s)) :
            \A a, b \in 1..Len(s) : a < b => <<q[b], q[a]>> \notin lt}}

\* ------------------------------------------------------------------------
\* MigrationScripts helpers
\* ------------------------------------------------------------------------
ContainsMigrations(ms) == Len(ms.Up) > 0 \/ Len(ms.Down) > 0

Add(ms, in) == [Up |-> ms.Up \o in.Up, Down |-> ms.Down \o in.Down]

UpLess(a, b) == a.Timestamp < b.Timestamp

\* Mutant of DownLess: the down files are sorted oldest first.
DownLessAscending(a, b) == a.Timestamp < b.Timestamp

DownLess(a, b) == a.Timestamp > b.Timestamp

SortUpFiles(up) ==
    SortSlice(up, {ij \in (DOMAIN up) \X (DOMAIN up) : UpLess(up[ij[1]], up[ij[2]])})

SortDownFiles(down) ==
    SortSlice(down, {ij \in (DOMAIN down) \X (DOMAIN down) : DownLess(down[ij[1]], down[ij[2]])})

VersionLess(a, b) == a.Version < b.Version

SortByVersion(lc) ==
    SortSlice(lc, {ij \in (DOMAIN lc) \X (DOMAIN lc) : VersionLess(lc[ij[1]], lc[ij[2]])})

\* ------------------------------------------------------------------------
\* DatabaseModel queries
\* ------------------------------------------------------------------------
ContainsHigherVersion(dbm, folder, version) ==
    /\ folder \in DOMAIN dbm
    /\ \E k \in DOMAIN dbm[folder] : version < dbm[folder][k].Version

\* Mutant of GetFileTimestamps: the version is not compared, the first
\* version the folder lists is returned.
GetFileTimestampsFirst(dbm, folder, version) ==
    IF folder \notin DOMAIN dbm THEN {}
    ELSE dbm[folder][1].FileTimestamps

GetFileTimestamps(dbm, folder, version) ==
    IF folder \notin DOMAIN dbm THEN {}
    ELSE LET hits == {k \in DOMAIN dbm[folder] : dbm[folder][k].Version = version}
         IN IF hits = {} THEN {}
            ELSE dbm[folder][CHOOSE k \in hits : \A l \in hits : k <= l].FileTimestamps

HasAnyVersion(dbm) ==
    \E f \in DOMAIN dbm : \E k \in DOMAIN dbm[f] : dbm[f][k].FileTimestamps # {}

\* ------------------------------------------------------------------------
\* planFolder and its helpers
\* ------------------------------------------------------------------------
\* Mutant of planUpgrade: the executed timestamps are not consulted.
planUpgradeRerun(folderScripts, executedFiles, targetCommit) ==
    LET cap == IF targetCommit = 0 THEN MaxInt64 ELSE targetCommit
    IN SelectSeq(folderScripts.Up, LAMBDA f : f.Timestamp <= cap)

\* Mutant of planUpgrade: a commit of 0 is taken as a cap, not as no cap.
planUpgradeZeroCap(folderScripts, executedFiles, targetCommit) ==
    SelectSeq(folderScripts.Up,
              LAMBDA f : f.Timestamp <= targetCommit /\ f.Timestamp \notin executedFiles)

planUpgrade(folderScripts, executedFiles, targetCommit) ==
    LET cap == IF targetCommit = 0 THEN MaxInt64 ELSE targetCommit
    IN SelectSeq(folderScripts.Up,
                 LAMBDA f : f.Timestamp <= cap /\ f.Timestamp \notin executedFiles)

\* Mutant of planDowngrade: the file of the target revision is rolled back.
planDowngradeInclusive(folderScripts, executedFiles, targetCommit) ==
    LET cap == IF targetCommit = 0 THEN MaxInt64 ELSE targetCommit
    IN SelectSeq(folderScripts.Down,
                 LAMBDA f : f.Timestamp >= cap /\ f.Timestamp \in executedFiles)

planDowngrade(folderScripts, executedFiles, targetCommit) ==
    LET cap == IF targetCommit = 0 THEN MaxInt64 ELSE targetCommit
    IN SelectSeq(folderScripts.Down,
                 LAMBDA f : f.Timestamp > cap /\ f.Timestamp \in executedFiles)

\* Mutant of planFolder: a version above the target is rolled back down to
\* the target revision only.
planFolderPinned(folderName, folderVersion, folderScripts, dbm, target) ==
    LET executedFiles == GetFileTimestamps(dbm, folderName, folderVersion)
    IN IF target.IsNil \/ folderVersion < target.Version
       THEN IF ContainsHigherVersion(dbm, folderName, folderVersion)
            THEN EmptyScripts
            ELSE [Up |-> planUpgrade(folderScripts, executedFiles, 0), Down |-> <<>>]
       ELSE IF folderVersion = target.Version
       THEN [Up |-> planUpgrade(folderScripts, executedFiles, target.Revision),
             Down |-> planDowngrade(folderScripts, executedFiles, target.Revision)]
       ELSE [Up |-> <<>>,
             Down |-> planDowngrade(folderScripts, executedFiles, target.Revision)]

planFolder(folderName, folderVersion, folderScripts, dbm, target) ==
    LET executedFiles == GetFileTimestamps(dbm, folderName, folderVersion)
    IN IF target.IsNil \/ folderVersion < target.Version
       THEN IF ContainsHigherVersion(dbm, folderName, folderVersion)
            THEN EmptyScripts
            ELSE [Up |-> planUpgrade(folderScripts, executedFiles, 0), Down |-> <<>>]
       ELSE IF folderVersion = target.Version
       THEN [Up |-> planUpgrade(folderScripts, executedFiles, target.Revision),
             Down |-> planDowngrade(folderScripts, executedFiles, target.Revision)]
       ELSE [Up |-> <<>>, Down |-> planDowngrade(folderScripts, executedFiles, -1)]

\* planFolder for an auxiliary folder of the batch: lf.ExtraFolders[bf] is nil
\* when the version has no such folder, planFolder then returns nil and Add
\* ignores it.
planExtraFolder(bf, lf, dbm, target) ==
    IF bf \in DOMAIN lf.ExtraFolders
    THEN planFolder(bf, lf.Version, lf.ExtraFolders[bf], dbm, target)
    ELSE EmptyScripts

RECURSIVE AddAll(_, _, _, _, _)
AddAll(filesToRun, folders, lf, dbm, target) ==
    IF folders = <<>> THEN filesToRun
    ELSE AddAll(Add(filesToRun, planExtraFolder(Head(folders), lf, dbm, target)),
                Tail(folders), lf, dbm, target)

\* Mutant of UseSnapshot: a populated database model does not rule the
\* snapshot out.
UseSnapshotPopulated(lf, dbm, target, b) ==
    /\ b \in DOMAIN lf.Snapshots
    /\ \/ target.IsNil
       \/ lf.Version < target.Version
       \/ lf.Version = target.Version /\ target.Revision = 0

\* The switch of the snapshot short-circuit (the three fallthrough cases).
UseSnapshot(lf, dbm, target, b) ==
    /\ ~HasAnyVersion(dbm)
    /\ b \in DOMAIN lf.Snapshots
    /\ \/ target.IsNil
       \/ lf.Version < target.Version
       \/ lf.Version = target.Version /\ target.Revision = 0

\* ------------------------------------------------------------------------
\* Inputs of a Plan call
\* ------------------------------------------------------------------------
\* Mutant of ScannedScripts: every folder is scanned as an up_down folder.
ScannedScriptsUpDown(folder, dir, S) ==
    LET asc == Ascending(S)
        desc == Descending(S)
    IN [Up |-> [k \in DOMAIN asc |-> MigrationFile(folder, dir, asc[k], FALSE, FALSE)],
        Down |-> [k \in DOMAIN desc |-> MigrationFile(folder, dir, desc[k], TRUE, FALSE)]]

\* The scripts the scanner catalogues for one folder-version directory that
\* holds the timestamps S: ups ascending, downs descending, and no down
\* files in a folder of type change.
ScannedScripts(folder, dir, S) ==
    LET asc == Ascending(S)
        desc == Descending(S)
    IN [Up |-> [k \in DOMAIN asc |-> MigrationFile(folder, dir, asc[k], FALSE, FALSE)],
        Down |-> IF MigrationType[folder] = "up_down"
                 THEN [k \in DOMAIN desc |-> MigrationFile(folder, dir, desc[k], TRUE, FALSE)]
                 ELSE <<>>]

\* One catalog entry: the directory dir of version v holding the artifacts
\* fs (pairs of folder and timestamp) and snapshots for the batches sn.
Entry(v, dir, fs, sn) ==
    LET ts(f) == {p[2] : p \in {q \in fs : q[1] = f}}
        extra == {f \in Folders : ts(f) # {}}
    IN [Version |-> v, Dir |-> dir,
        SchemaFolder |-> ScannedScripts(SchemaFolderName, dir, ts(SchemaFolderName)),
        ExtraFolders |-> [f \in extra |-> ScannedScripts(f, dir, ts(f))],
        Snapshots |-> [b \in sn |-> MigrationFile("snapshots", dir, 0, FALSE, TRUE)]]

\* The version directories of the schema folder in the order the directory
\* listing returns them (unsorted; two names may parse to the same version).
DirLists == UNION {[1..n -> Versions] : n \in 0..MaxEntries}

\* TRUE when directory k of dirs is the first one of its version: auxiliary
\* folders and snapshots of a version are attached to that entry only.
FirstOfVersion(dirs, k) == \A l \in 1..(k - 1) : dirs[l] # dirs[k]

\* The artifacts of a catalog: triples of directory, folder and timestamp.
FileSlots(dirs) ==
    {s \in (DOMAIN dirs) \X UsedFolders \X Timestamps :
        s[2] \in Folders => FirstOfVersion(dirs, s[1])}

FileSets(dirs) == {fs \in SUBSET FileSlots(dirs) : Cardinality(fs) <= MaxFiles}

\* The snapshots of a catalog: pairs of directory and batch name; the
\* snapshots directory holds files of the batch perf-seed only, so that a
\* plan of the batch schema meets snapshots of another batch.
SnapshotSlots(dirs) ==
    {s \in (DOMAIN dirs) \X {"perf-seed"} : FirstOfVersion(dirs, s[1])}

SnapshotSets(dirs) == SUBSET SnapshotSlots(dirs)

\* The catalog ScanFolders returns for the directories dirs holding the
\* artifacts fs and the snapshots sn.
Catalog(dirs, fs, sn) ==
    [k \in DOMAIN dirs |->
        Entry(dirs[k], k, {<<s[2], s[3]>> : s \in {x \in fs : x[1] = k}},
              {s[2] : s \in {x \in sn : x[1] = k}})]

\* The database models: applied is a set of triples of folder, version and
\* timestamp; each folder lists its recorded versions once, ascending.
AppliedSets ==
    {a \in SUBSET (UsedFolders \X Versions \X Timestamps) : Cardinality(a) <= MaxApplied}

DatabaseModel(applied) ==
    LET vs(f) == {a[2] : a \in {x \in applied : x[1] = f}}
        asc(f) == Ascending(vs(f))
    IN [f \in {a[1] : a \in applied} |->
          [k \in DOMAIN asc(f) |->
              [Version |-> asc(f)[k],
               FileTimestamps |-> {a[3] : a \in {x \in applied : x[1] = f /\ x[2] = asc(f)[k]}}]]]

\* The targets: nil, a target without version, and every version up to one
\* above the catalog's range with every revision.
Targets ==
    {NilTarget} \cup
    [IsNil : {FALSE}, Version : 0..(MaxVersion + 1), Revision : 0..MaxRevision]

\* ------------------------------------------------------------------------
\* Planner.Plan
\* ------------------------------------------------------------------------
\* Mutant of NormalizeTarget: a target without version is kept as it is.
NormalizeTargetKeep(target) == target

\* The local targetVersion: a target without version is set to nil.
NormalizeTarget(target) ==
    IF ~target.IsNil /\ target.Version = 0 THEN NilTarget ELSE target

\* Mutant of TargetOutOfRange: a catalog of one entry is not checked.
TargetOutOfRangeMany(lfs, t) ==
    Len(lfs) > 1 /\ ~t.IsNil /\ lfs[Len(lfs)].Version < t.Version

\* The range check: the highest catalog version is below the target version.
TargetOutOfRange(lfs, t) ==
    Len(lfs) > 0 /\ ~t.IsNil /\ lfs[Len(lfs)].Version < t.Version

\* filesToRun of one iteration of the version loop.
FilesToRun(lf, dbm, t, bfs) ==
    AddAll(planFolder(SchemaFolderName, lf.Version, lf.SchemaFolder, dbm, t),
           bfs, lf, dbm, t)

\* Mutant of PlanVersion: the snapshot is appended to the plan, the plan is
\* not reset.
PlanVersionKeepPlan(p, lf, dbm, t, b, bfs) ==
    IF UseSnapshot(lf, dbm, t, b)
    THEN Append(p, [Up |-> <<lf.Snapshots[b]>>, Down |-> <<>>, version |-> lf.Version])
    ELSE LET filesToRun == FilesToRun(lf, dbm, t, bfs)
         IN IF ContainsMigrations(filesToRun)
            THEN Append(p, [Up |-> filesToRun.Up, Down |-> filesToRun.Down,
                            version |-> lf.Version])
            ELSE p

\* The body of the version loop for entry lf: the plan it leaves.
PlanVersion(p, lf, dbm, t, b, bfs) ==
    IF UseSnapshot(lf, dbm, t, b)
    THEN <<[Up |-> <<lf.Snapshots[b]>>, Down |-> <<>>, version |-> lf.Version]>>
    ELSE LET filesToRun == FilesToRun(lf, dbm, t, bfs)
         IN IF ContainsMigrations(filesToRun)
            THEN Append(p, [Up |-> filesToRun.Up, Down |-> filesToRun.Down,
                            version |-> lf.Version])
            ELSE p

\* The version loop from entry i on, starting with the plan p.
RECURSIVE PlanVersions(_, _, _, _, _, _, _)
PlanVersions(p, lfs, i, dbm, t, b, bfs) ==
    IF i > Len(lfs) THEN p
    ELSE PlanVersions(PlanVersion(p, lfs[i], dbm, t, b, bfs), lfs, i + 1, dbm, t, b, bfs)

\* History of the version loop: per visited entry, whether its snapshot
\* replaced the plan and what planFolder returned for each folder.
Contribution(lf, dbm, t, b, bfs) ==
    [Dir |-> lf.Dir, Version |-> lf.Version,
     snapshot |-> UseSnapshot(lf, dbm, t, b),
     files |-> [f \in {SchemaFolderName} \cup Range(bfs) |->
                  IF UseSnapshot(lf, dbm, t, b) THEN EmptyScripts
                  ELSE IF f = SchemaFolderName
                  THEN planFolder(f, lf.Version, lf.SchemaFolder, dbm, t)
                  ELSE planExtraFolder(f, lf, dbm, t)]]

\* The orders in which the upgrade loop calls the Builder: plan entries
\* first to last, the up files of each in an order SortUpFiles may leave.
RECURSIVE UpgradeOrders(_, _)
UpgradeOrders(p, i) ==
    IF i > Len(p) THEN {<<>>}
    ELSE {[k \in DOMAIN s |-> [file |-> s[k], version |-> p[i].version]] \o rest :
            s \in SortUpFiles(p[i].Up), rest \in UpgradeOrders(p, i + 1)}

\* The orders in which the downgrade loop calls the Builder: plan entries
\* last to first, the down files of each in an order SortDownFiles may leave.
RECURSIVE DowngradeOrders(_, _)
DowngradeOrders(p, i) ==
    IF i < 1 THEN {<<>>}
    ELSE {[k \in DOMAIN s |-> [file |-> s[k], version |-> p[i].version]] \o rest :
            s \in SortDownFiles(p[i].Down), rest \in DowngradeOrders(p, i - 1)}

\* ------------------------------------------------------------------------
\* State of one Plan call
\* ------------------------------------------------------------------------
VARIABLES
    localFolders,   \* the catalog passed in (sorted in place by Plan)
    dbModel,        \* the database model passed in
    targetVersion,  \* the target passed in
    batch,          \* the batch name passed in
    pc,             \* position of the call: start, upgrade, downgrade, done
    plan,           \* the versionPlan list built by the version loop
    up,             \* upgrade loop: the Builder calls still to make, in order
    down,           \* downgrade loop: the Builder calls still to make, in order
    calls,          \* history: the Builder calls made so far, with their result
    contrib,        \* history: what each visited catalog entry contributed
    err,            \* the value Plan returns
    steps,          \* the ExecutionSteps the renderer appends to
    lastCall,       \* history: the last AddCypher, AddCommand or Builder call
    graph,          \* the bookkeeping nodes of the graph database
    labelSets,      \* the node labels the configuration gives each folder
    lastStmt,       \* history: the last bookkeeping statement run per artifact
    disk,           \* the directories and files under the base folder
    scanned,        \* what the last scanner call returned
    round,          \* 0 in the first Plan call, else 1 + the number of Builder calls of the first
    shown,          \* the text the last String or MarshalJSON call returned
    serviceState,   \* Neo4jWrapper.serviceState
    serviceCmd,     \* Neo4jWrapper.serviceCmd: 0 is nil, else the process it points to
    utilsCmd,       \* Neo4jWrapper.utilsCmd: the utility names in the map
    cancelWaitingChan, \* the package channel: nil, empty or full (capacity 1)
    spinUpMux,      \* the package mutex: 0 is unlocked, else the WaitForNeo4j call holding it
    utilsMux,       \* the package mutex: "unlocked", else the caller that locked it last
    procs,          \* the Neo4j processes started so far: running or exited, signals received
    client,         \* the caller of Start, Stop, StopAll and Restart
    updater,        \* the callers of RefreshData: position, steps to run, results
    waiter,         \* the WaitForNeo4j goroutines Start spawned, one per process
    cleaner,        \* the clean-up goroutines Stop spawned, one per client call
    restarter,      \* the goroutines Restart spawned, one per client call
    returned        \* history: what the last WaitForNeo4j call returned

vars == <<localFolders, dbModel, targetVersion, batch, pc, plan, up, down,
          calls, contrib, err, steps, lastCall, graph, labelSets, lastStmt,
          disk, scanned, round, shown,
          serviceState, serviceCmd, utilsCmd, cancelWaitingChan, spinUpMux,
          utilsMux, procs, client, updater, waiter, cleaner, restarter, returned>>

\* The variables of a Plan call and those of the step sequence.
plannerVars == <<localFolders, dbModel, targetVersion, batch, pc, plan, up, down,
                 calls, contrib, err>>

rendererVars == <<steps, lastCall>>

graphVars == <<graph, labelSets, lastStmt>>

scannerVars == <<disk, scanned>>

wrapperVars == <<serviceState, serviceCmd, utilsCmd, cancelWaitingChan, spinUpMux,
                 utilsMux, procs, client, updater, waiter, cleaner, restarter, returned>>

nonPlannerVars == <<rendererVars, graphVars, scannerVars, round, shown, wrapperVars>>

nonRendererVars == <<plannerVars, graphVars, scannerVars, round, shown, wrapperVars>>

nonGraphVars == <<plannerVars, rendererVars, scannerVars, round, shown, wrapperVars>>

nonScannerVars == <<plannerVars, rendererVars, graphVars, round, shown, wrapperVars>>

\* No step has been added.
NoSteps == steps = <<>> /\ lastCall = [op |-> "none", args |-> <<>>]

\* The artifacts a bookkeeping statement can name.
Artifacts == UsedFolders \X Versions \X Timestamps

\* The label sets of the tests' configuration after Normalize.
DefaultLabelSets ==
    ("schema" :> {"GraphToolMigration", "SchemaVersion"}) @@
    ("perf" :> {"GraphToolMigration", "PerfVersion"})

\* No bookkeeping statement has run on an empty database.
NoStmts == lastStmt = [a \in Artifacts |-> "none"]

NoGraph == graph = {} /\ labelSets = DefaultLabelSets /\ NoStmts

\* No scanner call has been made, and no Plan call has returned.
NoScan == disk = <<>> /\ scanned = [op |-> "none"] /\ round = 0

\* No database model has been converted to text.
NoText == shown = [op |-> "none", text |-> <<>>]

\* The wrapper as NewNeo4jWrapper leaves it: state Stopped, no process handle,
\* no utility, the package channel nil and both package mutexes unlocked; no
\* goroutine has been spawned and no call has been made.
NoProcess == [st |-> "none", signals |-> 0]

IdleUpdater ==
    [pc |-> "idle", todo |-> <<>>, err |-> FALSE, failed |-> FALSE,
     ranAfterFailure |-> FALSE, ret |-> "none"]

NewWrapper(budget) ==
    /\ serviceState = "Stopped"
    /\ serviceCmd = 0
    /\ utilsCmd = {}
    /\ cancelWaitingChan = "nil"
    /\ spinUpMux = 0
    /\ utilsMux = "unlocked"
    /\ procs = [p \in 1..MaxProcs |-> NoProcess]
    /\ client = [pc |-> "idle", calls |-> 0, budget |-> budget, op |-> "none",
                 ret |-> "none", from |-> "none", started |-> 0]
    /\ updater = [u \in Updaters |-> IdleUpdater]
    /\ waiter = [p \in 1..MaxProcs |->
                    [pc |-> "none", cancelled |-> FALSE, connected |-> FALSE]]
    /\ cleaner = [k \in 1..MaxCalls |-> [pc |-> "none", cmd |-> 0]]
    /\ restarter = [k \in 1..MaxCalls |-> [pc |-> "none", cmd |-> 0, ret |-> "none"]]
    /\ returned = [op |-> "none"]

NoWrapper == NewWrapper(0)

\* The inputs of the call: a catalog as the scanner returns it, a database
\* model, a target and a batch name (an undeclared batch is tried with the
\* nil database model only: Plan returns before it reads the model).
Init ==
    /\ \E dirs \in DirLists : \E fs \in FileSets(dirs) : \E sn \in SnapshotSets(dirs) :
          localFolders = Catalog(dirs, fs, sn)
    /\ batch \in BatchInputs
    /\ \E applied \in AppliedSets :
          /\ batch \notin {"schema"} \cup DOMAIN Batches => applied = {}
          /\ dbModel = DatabaseModel(applied)
    /\ targetVersion \in Targets
    /\ pc = "start"
    /\ plan = <<>>
    /\ up = <<>>
    /\ down = <<>>
    /\ calls = <<>>
    /\ contrib = <<>>
    /\ err = "none"
    /\ NoSteps /\ NoGraph /\ NoScan /\ NoText /\ NoWrapper

\* Mutant of Position: the downgrade loop runs before the upgrade loop.
PositionDownFirst(up2, down2) ==
    IF down2 # <<>> THEN "downgrade" ELSE IF up2 # <<>> THEN "upgrade" ELSE "done"

\* Where Plan stands once the calls up2 and down2 are left to make: in the
\* loop that has a call to make, or returned nil.
Position(up2, down2) ==
    IF up2 # <<>> THEN "upgrade" ELSE IF down2 # <<>> THEN "downgrade" ELSE "done"

\* Plan up to its first Builder call: the batch lookup, SortByVersion, the
\* normalisation of the target, the range check, the version loop and the
\* sorts of the two Builder loops.
Plan ==
    /\ pc = "start"
    /\ IF batch # "schema" /\ batch \notin DOMAIN Batches
       THEN /\ pc' = "done"
            /\ err' = "unknown batch name"
            /\ UNCHANGED <<localFolders, plan, up, down, contrib>>
       ELSE \E sorted \in SortByVersion(localFolders) :
            LET t == NormalizeTarget(targetVersion)
                bfs == IF batch = "schema" THEN <<>> ELSE Batches[batch]
                p == PlanVersions(<<>>, sorted, 1, dbModel, t, batch, bfs)
            IN /\ localFolders' = sorted
               /\ IF TargetOutOfRange(sorted, t)
                  THEN /\ pc' = "done"
                       /\ err' = "specified target version does not exist"
                       /\ UNCHANGED <<plan, up, down, contrib>>
                  ELSE /\ plan' = p
                       /\ contrib' = [k \in DOMAIN sorted |->
                                        Contribution(sorted[k], dbModel, t, batch, bfs)]
                       /\ up' \in UpgradeOrders(p, 1)
                       /\ down' \in DowngradeOrders(p, Len(p))
                       /\ pc' = Position(up', down')
                       /\ err' = IF pc' = "done" THEN "nil" ELSE err
    /\ UNCHANGED <<dbModel, targetVersion, batch, calls>>
    /\ UNCHANGED nonPlannerVars

\* Mutant of Upgrade: the error of the Builder is dropped and the loop goes
\* on.
UpgradeIgnoreError ==
    /\ pc = "upgrade"
    /\ \E ok \in BOOLEAN :
          /\ calls' = Append(calls, [file |-> Head(up).file,
                                     version |-> Head(up).version, ok |-> ok])
          /\ up' = Tail(up)
          /\ pc' = Position(up', down)
          /\ err' = IF pc' = "done" THEN "nil" ELSE err
    /\ UNCHANGED <<localFolders, dbModel, targetVersion, batch, plan, down, contrib>>
    /\ UNCHANGED nonPlannerVars

\* The upgrade loop: the Builder is called for the next up file and returns
\* nil (ok) or an error, which Plan returns.
Upgrade ==
    /\ pc = "upgrade"
    /\ \E ok \in BOOLEAN :
          /\ calls' = Append(calls, [file |-> Head(up).file,
                                     version |-> Head(up).version, ok |-> ok])
          /\ IF ok
             THEN /\ up' = Tail(up)
                  /\ pc' = Position(up', down)
                  /\ err' = IF pc' = "done" THEN "nil" ELSE err
             ELSE /\ up' = up
                  /\ pc' = "done"
                  /\ err' = "builder error"
    /\ UNCHANGED <<localFolders, dbModel, targetVersion, batch, plan, down, contrib>>
    /\ UNCHANGED nonPlannerVars

\* The downgrade loop: the Builder is called for the next down file.
Downgrade ==
    /\ pc = "downgrade"
    /\ \E ok \in BOOLEAN :
          /\ calls' = Append(calls, [file |-> Head(down).file,
                                     version |-> Head(down).version, ok |-> ok])
          /\ IF ok
             THEN /\ down' = Tail(down)
                  /\ pc' = Position(up, down')
                  /\ err' = IF pc' = "done" THEN "nil" ELSE err
             ELSE /\ down' = down
                  /\ pc' = "done"
                  /\ err' = "builder error"
    /\ UNCHANGED <<localFolders, dbModel, targetVersion, batch, plan, up, contrib>>
    /\ UNCHANGED nonPlannerVars

Next ==
    \/ Plan
    \/ Upgrade
    \/ Downgrade

Spec == Init /\ [][Next]_vars

\* ------------------------------------------------------------------------
\* Vocabulary of the properties
\* ------------------------------------------------------------------------
IsUpCall(c) == ~c.file.IsDowngrade

IsDownCall(c) == c.file.IsDowngrade

IsFileCall(c) == ~c.file.IsSnapshot

\* The timestamps the database model records as applied for a folder and a
\* version.
Recorded(f, v) ==
    IF f \in DOMAIN dbModel
    THEN UNION {dbModel[f][k].FileTimestamps :
                  k \in {l \in DOMAIN dbModel[f] : dbModel[f][l].Version = v}}
    ELSE {}

\* The database model records no applied timestamp at all.
NothingRecorded == \A f \in AllFolders, v \in 0..(MaxVersion + 1) : Recorded(f, v) = {}

\* The catalog entry a regular artifact or a snapshot belongs to.
EntryOf(file) ==
    CHOOSE k \in DOMAIN localFolders : localFolders[k].Dir = file.Dir

\* The folders a plan of batch b reads: the schema folder and the folders of
\* the batch.
PlannedFolders(b) ==
    {SchemaFolderName} \cup (IF b \in DOMAIN Batches THEN Range(Batches[b]) ELSE {})

\* The scripts of folder f in catalog entry lf (none when it has no such
\* folder).
ScriptsOf(lf, f) ==
    IF f = SchemaFolderName THEN lf.SchemaFolder
    ELSE IF f \in DOMAIN lf.ExtraFolders THEN lf.ExtraFolders[f]
    ELSE EmptyScripts

\* The target as Plan reads it: nil when it is nil or carries no version.
NoTarget == targetVersion.IsNil \/ targetVersion.Version = 0

\* (v1, t1) is at most (v2, t2) in the order by version, then timestamp.
PairLeq(v1, t1, v2, t2) == v1 < v2 \/ (v1 = v2 /\ t1 <= t2)

\* No two catalog entries have the same version.
UniqueVersions ==
    \A k, l \in DOMAIN localFolders :
        localFolders[k].Version = localFolders[l].Version => k = l

\* ------------------------------------------------------------------------
\* C1: within one Plan call the upgrade Builder calls occur in
\* non-decreasing (catalog-entry version, timestamp) order across the whole
\* plan.
\* ------------------------------------------------------------------------
C1_UpgradeMonotone ==
    \A i, j \in DOMAIN calls :
        (i < j /\ IsUpCall(calls[i]) /\ IsUpCall(calls[j]))
            => PairLeq(calls[i].version, calls[i].file.Timestamp,
                       calls[j].version, calls[j].file.Timestamp)

\* C1 restricted to catalogs that hold every version once.
C1_UpgradeMonotoneUnique == UniqueVersions => C1_UpgradeMonotone

\* Two upgrade calls of different folders were made in one version.
C1_Witness ==
    \E i, j \in DOMAIN calls :
        /\ i < j
        /\ IsUpCall(calls[i]) /\ IsUpCall(calls[j])
        /\ calls[i].version = calls[j].version
        /\ calls[i].file.FolderName # calls[j].file.FolderName
        /\ calls[i].file.Timestamp < calls[j].file.Timestamp
        /\ UniqueVersions

\* ------------------------------------------------------------------------
\* C2: within one Plan call the downgrade Builder calls occur in
\* non-increasing (catalog-entry version, timestamp) order across the whole
\* plan.
\* ------------------------------------------------------------------------
C2_DowngradeMonotone ==
    \A i, j \in DOMAIN calls :
        (i < j /\ IsDownCall(calls[i]) /\ IsDownCall(calls[j]))
            => PairLeq(calls[j].version, calls[j].file.Timestamp,
                       calls[i].version, calls[i].file.Timestamp)

\* C2 restricted to catalogs that hold every version once.
C2_DowngradeMonotoneUnique == UniqueVersions => C2_DowngradeMonotone

C2_Witness ==
    \E i, j \in DOMAIN calls :
        /\ i < j
        /\ IsDownCall(calls[i]) /\ IsDownCall(calls[j])
        /\ calls[i].file.FolderName # calls[j].file.FolderName
        /\ UniqueVersions

\* ------------------------------------------------------------------------
\* C3: in one Plan call every upgrade Builder call happens before every
\* downgrade Builder call.
\* ------------------------------------------------------------------------
C3_UpgradesBeforeDowngrades ==
    \A i, j \in DOMAIN calls :
        (IsDownCall(calls[i]) /\ IsUpCall(calls[j])) => j < i

\* A finished plan that made an upgrade call and a downgrade call.
C3_Witness ==
    /\ pc = "done"
    /\ err = "nil"
    /\ \E i, j \in DOMAIN calls : IsUpCall(calls[i]) /\ IsDownCall(calls[j])

\* ------------------------------------------------------------------------
\* C4: a timestamp that the database model records as applied for a folder
\* and version is never passed to the Builder as an up artifact of that
\* folder and version.
\* ------------------------------------------------------------------------
C4_NoDoubleApply ==
    \A i \in DOMAIN calls :
        (IsUpCall(calls[i]) /\ IsFileCall(calls[i]))
            => calls[i].file.Timestamp
                  \notin Recorded(calls[i].file.FolderName, calls[i].version)

\* A finished plan made an up call for a folder and version of which the
\* model records another timestamp that the catalog holds as well.
C4_Witness ==
    /\ pc = "done"
    /\ \E i \in DOMAIN calls :
          /\ IsUpCall(calls[i]) /\ IsFileCall(calls[i])
          /\ \E f \in Range(ScriptsOf(localFolders[EntryOf(calls[i].file)],
                                      calls[i].file.FolderName).Up) :
                f.Timestamp \in Recorded(calls[i].file.FolderName, calls[i].version)

\* ------------------------------------------------------------------------
\* C5: in one Plan call the Builder is called exactly once for each artifact
\* selected for a catalog entry and never twice for the same (folder,
\* version, timestamp, direction), and the version passed with an artifact
\* is the version of the catalog entry the artifact belongs to.
\* ------------------------------------------------------------------------
\* Exactly once per selected artifact (a plan that ran to its end).
C5_OncePerSelected ==
    (pc = "done" /\ err = "nil") =>
        /\ \A k \in DOMAIN plan : \A f \in Range(plan[k].Up) \cup Range(plan[k].Down) :
              Cardinality({i \in DOMAIN calls :
                             calls[i].file = f /\ calls[i].version = plan[k].version}) = 1
        /\ \A i \in DOMAIN calls : \E k \in DOMAIN plan :
              /\ calls[i].version = plan[k].version
              /\ calls[i].file \in Range(plan[k].Up) \cup Range(plan[k].Down)

\* Never twice for the same (folder, version, timestamp, direction).
C5_NeverTwice ==
    \A i, j \in DOMAIN calls :
        (/\ calls[i].file.FolderName = calls[j].file.FolderName
         /\ calls[i].version = calls[j].version
         /\ calls[i].file.Timestamp = calls[j].file.Timestamp
         /\ calls[i].file.IsDowngrade = calls[j].file.IsDowngrade) => i = j

\* The version passed is the version of the artifact's catalog entry.
C5_EntryVersion ==
    \A i \in DOMAIN calls :
        calls[i].version = localFolders[EntryOf(calls[i].file)].Version

C5_ExactlyOnce == C5_OncePerSelected /\ C5_NeverTwice /\ C5_EntryVersion

\* C5 restricted to catalogs that hold every version once.
C5_ExactlyOnceUnique == UniqueVersions => C5_ExactlyOnce

\* The parts of C5 that do not depend on the versions being unique.
C5_OnceAndEntryVersion == C5_OncePerSelected /\ C5_EntryVersion

\* ------------------------------------------------------------------------
\* C6: if the database model already records every timestamp the catalog
\* would contribute for the given target and batch, Plan succeeds without
\* calling the Builder at all.
\* ------------------------------------------------------------------------
\* The batch is declared and the target is within the catalog's range.
ValidCall ==
    /\ batch \in {"schema"} \cup DOMAIN Batches
    /\ \/ NoTarget
       \/ localFolders = <<>>
       \/ \E k \in DOMAIN localFolders : targetVersion.Version <= localFolders[k].Version

\* The up artifact x of a version v lies at or below the target.
WithinTarget(v, x) ==
    \/ NoTarget
    \/ v < targetVersion.Version
    \/ /\ v = targetVersion.Version
       /\ (targetVersion.Revision = 0 \/ x.Timestamp <= targetVersion.Revision)

\* The down artifact x of a version v lies beyond the target.
BeyondTarget(v, x) ==
    /\ ~NoTarget
    /\ \/ v > targetVersion.Version
       \/ /\ v = targetVersion.Version
          /\ targetVersion.Revision # 0
          /\ x.Timestamp > targetVersion.Revision

\* Every timestamp the catalog would contribute for the target and batch is
\* recorded as applied.
AllRecorded ==
    \A k \in DOMAIN localFolders : \A f \in PlannedFolders(batch) :
        \A x \in Range(ScriptsOf(localFolders[k], f).Up) :
            WithinTarget(localFolders[k].Version, x)
                => x.Timestamp \in Recorded(f, localFolders[k].Version)

\* A recorded timestamp of a planned folder has a down artifact beyond the
\* target.
RecordedBeyondTarget ==
    \E k \in DOMAIN localFolders : \E f \in PlannedFolders(batch) :
        \E x \in Range(ScriptsOf(localFolders[k], f).Down) :
            /\ BeyondTarget(localFolders[k].Version, x)
            /\ x.Timestamp \in Recorded(f, localFolders[k].Version)

\* The model is empty and the catalog holds a snapshot for the batch.
EmptyWithSnapshot ==
    /\ NothingRecorded
    /\ \E k \in DOMAIN localFolders : batch \in DOMAIN localFolders[k].Snapshots

\* C6 as stated.
C6_Idempotent ==
    (pc = "done" /\ ValidCall /\ AllRecorded) => (err = "nil" /\ calls = <<>>)

\* C6 amended: ... and the model records no timestamp beyond the target that
\* a planned folder holds a down artifact for, and it is not empty while the
\* catalog holds a snapshot for the batch.
C6_IdempotentAtTarget ==
    (pc = "done" /\ ValidCall /\ AllRecorded /\ ~RecordedBeyondTarget /\ ~EmptyWithSnapshot)
        => (err = "nil" /\ calls = <<>>)

\* A finished plan whose catalog would contribute a recorded timestamp and
\* that satisfies the amended precondition.
C6_Witness ==
    /\ pc = "done"
    /\ ValidCall /\ AllRecorded /\ ~RecordedBeyondTarget /\ ~EmptyWithSnapshot
    /\ \E k \in DOMAIN localFolders : \E f \in PlannedFolders(batch) :
          \E x \in Range(ScriptsOf(localFolders[k], f).Up) :
              WithinTarget(localFolders[k].Version, x)
    /\ \E k \in DOMAIN localFolders : batch \in DOMAIN localFolders[k].Snapshots

\* ------------------------------------------------------------------------
\* C7: when the database model records no versions and the catalog holds a
\* snapshot for the chosen batch at a version V below the target version (or
\* equal to it with target revision 0), the Builder receives that snapshot
\* once and no per-file artifact of any entry with version at most V.
\* ------------------------------------------------------------------------
\* Entry k holds a snapshot for the batch at or below the target as C7 has it.
SnapshotAt(k) ==
    /\ batch \in DOMAIN localFolders[k].Snapshots
    /\ ~NoTarget
    /\ \/ localFolders[k].Version < targetVersion.Version
       \/ /\ localFolders[k].Version = targetVersion.Version
          /\ targetVersion.Revision = 0

\* The number of Builder calls made for the snapshot of entry k.
SnapshotCalls(k) ==
    Cardinality({i \in DOMAIN calls :
                   calls[i].file.IsSnapshot /\ calls[i].file.Dir = localFolders[k].Dir})

\* C7 as stated.
C7_SnapshotReplaces ==
    (pc = "done" /\ NothingRecorded) =>
        \A k \in DOMAIN localFolders :
            SnapshotAt(k) =>
                /\ SnapshotCalls(k) = 1
                /\ \A i \in DOMAIN calls :
                      IsFileCall(calls[i]) => calls[i].version > localFolders[k].Version

\* C7 amended: ... at the highest such version V, with the target within the
\* catalog's range, the Builder receives that snapshot once, as its first
\* call and as the only snapshot, and no per-file artifact of an entry with a
\* version below V or of the entry that holds the snapshot.
C7_HighestSnapshotReplaces ==
    (pc = "done" /\ NothingRecorded /\ ValidCall) =>
        \A k \in DOMAIN localFolders :
            (/\ SnapshotAt(k)
             /\ \A l \in DOMAIN localFolders :
                   SnapshotAt(l) => localFolders[l].Version <= localFolders[k].Version)
            => /\ SnapshotCalls(k) = 1
               /\ calls[1].file.IsSnapshot
               /\ \A i \in DOMAIN calls : calls[i].file.IsSnapshot => i = 1
               /\ \A i \in DOMAIN calls :
                     IsFileCall(calls[i]) =>
                        /\ calls[i].version >= localFolders[k].Version
                        /\ calls[i].file.Dir # localFolders[k].Dir

\* A finished plan that replaced the files of the snapshot's version by the
\* snapshot and went on with a file of a higher version.
C7_Witness ==
    /\ pc = "done"
    /\ err = "nil"
    /\ NothingRecorded
    /\ ValidCall
    /\ \E k \in DOMAIN localFolders :
          /\ SnapshotAt(k)
          /\ localFolders[k].SchemaFolder.Up # <<>>
          /\ SnapshotCalls(k) = 1
          /\ \E i \in DOMAIN calls :
                IsFileCall(calls[i]) /\ calls[i].version > localFolders[k].Version

\* ------------------------------------------------------------------------
\* C8: the Builder is called with a snapshot artifact only if the database
\* model records no applied timestamp in any folder and the snapshot's
\* version is strictly below the target version, or equals it with target
\* revision zero, or the target is nil.
\* ------------------------------------------------------------------------
C8_SnapshotOnlyWhenAllowed ==
    \A i \in DOMAIN calls :
        calls[i].file.IsSnapshot =>
            /\ NothingRecorded
            /\ \/ NoTarget
               \/ calls[i].version < targetVersion.Version
               \/ /\ calls[i].version = targetVersion.Version
                  /\ targetVersion.Revision = 0

\* A snapshot was passed for the target version itself.
C8_Witness ==
    /\ calls # <<>>
    /\ calls[1].file.IsSnapshot
    /\ ~NoTarget
    /\ calls[1].version = targetVersion.Version

\* ------------------------------------------------------------------------
\* C9: if a Builder call returns an error, Plan returns that error
\* immediately and makes no further Builder call in that plan.
\* ------------------------------------------------------------------------
C9_BuilderErrorAborts ==
    \A i \in DOMAIN calls :
        ~calls[i].ok => (i = Len(calls) /\ pc = "done" /\ err = "builder error")

\* A Builder error ended a plan that had further calls to make.
C9_Witness ==
    /\ pc = "done"
    /\ err = "builder error"
    /\ Len(up) + Len(down) > 1
    /\ down # <<>>

\* ------------------------------------------------------------------------
\* C10: for the catalog entry whose version equals the target version, each
\* folder of the batch contributes exactly the up artifacts with timestamp
\* at most cap that are not recorded as applied, and exactly the down
\* artifacts with timestamp greater than cap that are recorded as applied,
\* where cap is the target revision, or the maximum 64-bit integer when the
\* revision is 0.
\* ------------------------------------------------------------------------
RevisionCap == IF targetVersion.Revision = 0 THEN MaxInt64 ELSE targetVersion.Revision

\* s lists exactly the elements of S, each once.
ListsExactly(s, S) == Range(s) = S /\ Len(s) = Cardinality(S)

\* The up artifacts of folder f the entry k has to contribute, and the down
\* artifacts.
DueUp(k, f) ==
    {x \in Range(ScriptsOf(localFolders[k], f).Up) :
        /\ x.Timestamp <= RevisionCap
        /\ x.Timestamp \notin Recorded(f, contrib[k].Version)}

DueDown(k, f) ==
    {x \in Range(ScriptsOf(localFolders[k], f).Down) :
        /\ x.Timestamp > RevisionCap
        /\ x.Timestamp \in Recorded(f, contrib[k].Version)}

\* The Builder calls made for the files of folder f of entry k.
CallsFor(k, f) ==
    {i \in DOMAIN calls :
        /\ IsFileCall(calls[i])
        /\ calls[i].file.Dir = contrib[k].Dir
        /\ calls[i].file.FolderName = f}

\* The snapshot short-circuit resets the plan at entry k or after it.
ResetFrom(k) == \E l \in k..Len(contrib) : contrib[l].snapshot

AtTarget(k) == ~NoTarget /\ contrib[k].Version = targetVersion.Version

\* C10 as stated.
C10_TargetVersionContribution ==
    \A k \in DOMAIN contrib : AtTarget(k) =>
        \A f \in PlannedFolders(batch) :
            /\ ListsExactly(contrib[k].files[f].Up, DueUp(k, f))
            /\ ListsExactly(contrib[k].files[f].Down, DueDown(k, f))

\* C10 amended: ... unless the snapshot short-circuit replaces the plan at
\* that entry; what the folder contributes is what planFolder returns and,
\* when no reset follows and Plan returns nil, what the Builder receives.
C10_TargetVersionContributionNoSnapshot ==
    \A k \in DOMAIN contrib : AtTarget(k) =>
        \A f \in PlannedFolders(batch) :
            /\ ~contrib[k].snapshot =>
                  /\ ListsExactly(contrib[k].files[f].Up, DueUp(k, f))
                  /\ ListsExactly(contrib[k].files[f].Down, DueDown(k, f))
            /\ (~ResetFrom(k) /\ pc = "done" /\ err = "nil") =>
                  /\ {calls[i].file : i \in CallsFor(k, f)} = DueUp(k, f) \cup DueDown(k, f)
                  /\ Cardinality(CallsFor(k, f)) = Cardinality(DueUp(k, f) \cup DueDown(k, f))

\* The entry of the target version contributed an up and a down artifact of
\* one folder and the Builder received both.
C10_Witness ==
    /\ pc = "done"
    /\ err = "nil"
    /\ \E k \in DOMAIN contrib :
          /\ AtTarget(k)
          /\ ~ResetFrom(k)
          /\ \E f \in PlannedFolders(batch) :
                /\ contrib[k].files[f].Up # <<>>
                /\ contrib[k].files[f].Down # <<>>
                /\ Cardinality(CallsFor(k, f)) = 2


\* ------------------------------------------------------------------------
\* C11: for every catalog entry whose version is greater than the target
\* version, each folder of the batch contributes a down call for every down
\* artifact whose timestamp is recorded as applied for that folder and
\* version, and contributes no up call.
\* ------------------------------------------------------------------------
AboveTarget(k) == ~NoTarget /\ contrib[k].Version > targetVersion.Version

\* The down artifacts of folder f of entry k that are recorded as applied.
RecordedDown(k, f) ==
    {x \in Range(ScriptsOf(localFolders[k], f).Down) :
        x.Timestamp \in Recorded(f, contrib[k].Version)}

C11_HigherVersionRolledBack ==
    \A k \in DOMAIN contrib : AboveTarget(k) =>
        \A f \in PlannedFolders(batch) :
            /\ contrib[k].files[f].Up = <<>>
            /\ ListsExactly(contrib[k].files[f].Down, RecordedDown(k, f))
            /\ (pc = "done" /\ err = "nil") =>
                  /\ {calls[i].file : i \in CallsFor(k, f)} = RecordedDown(k, f)
                  /\ Cardinality(CallsFor(k, f)) = Cardinality(RecordedDown(k, f))

\* A plan with a pinned revision rolled back a file of a higher version whose
\* timestamp is not above the revision, and left an unrecorded one alone.
C11_Witness ==
    /\ pc = "done"
    /\ err = "nil"
    /\ targetVersion.Revision # 0
    /\ \E k \in DOMAIN contrib : \E f \in PlannedFolders(batch) :
          /\ AboveTarget(k)
          /\ \E i \in CallsFor(k, f) :
                calls[i].file.Timestamp <= targetVersion.Revision
          /\ ScriptsOf(localFolders[k], f).Up # <<>>


\* ------------------------------------------------------------------------
\* C12: for a catalog entry below the target version (or any entry when the
\* target is nil), a folder contributes nothing if the database model
\* records any higher version for that same folder; otherwise it contributes
\* every up artifact whose timestamp is not recorded as applied, with no
\* revision cap, and never a down artifact.
\* ------------------------------------------------------------------------
BelowTarget(k) == NoTarget \/ contrib[k].Version < targetVersion.Version

\* The database model records a version of folder f above that of entry k.
HigherRecorded(k, f) ==
    /\ f \in DOMAIN dbModel
    /\ \E l \in DOMAIN dbModel[f] : dbModel[f][l].Version > contrib[k].Version

\* The up artifacts of folder f of entry k that are not recorded as applied.
UnrecordedUp(k, f) ==
    IF HigherRecorded(k, f) THEN {}
    ELSE {x \in Range(ScriptsOf(localFolders[k], f).Up) :
            x.Timestamp \notin Recorded(f, contrib[k].Version)}

\* C12 as stated.
C12_LowerVersionContribution ==
    \A k \in DOMAIN contrib : BelowTarget(k) =>
        \A f \in PlannedFolders(batch) :
            /\ ListsExactly(contrib[k].files[f].Up, UnrecordedUp(k, f))
            /\ contrib[k].files[f].Down = <<>>

\* C12 amended: ... unless the snapshot short-circuit replaces the plan at
\* that entry; what the folder contributes is what planFolder returns and,
\* when no reset follows and Plan returns nil, what the Builder receives.
C12_LowerVersionContributionNoSnapshot ==
    \A k \in DOMAIN contrib : BelowTarget(k) =>
        \A f \in PlannedFolders(batch) :
            /\ ~contrib[k].snapshot =>
                  /\ ListsExactly(contrib[k].files[f].Up, UnrecordedUp(k, f))
                  /\ contrib[k].files[f].Down = <<>>
            /\ (~ResetFrom(k) /\ pc = "done" /\ err = "nil") =>
                  /\ {calls[i].file : i \in CallsFor(k, f)} = UnrecordedUp(k, f)
                  /\ Cardinality(CallsFor(k, f)) = Cardinality(UnrecordedUp(k, f))

\* A finished plan with a pinned revision in which one folder of a lower
\* entry was superseded and contributed nothing, and in which a lower entry
\* contributed an up artifact above the pinned revision.
C12_Witness ==
    /\ pc = "done"
    /\ err = "nil"
    /\ \E k \in DOMAIN contrib : \E f \in PlannedFolders(batch) :
          /\ BelowTarget(k)
          /\ HigherRecorded(k, f)
          /\ \E x \in Range(ScriptsOf(localFolders[k], f).Up) :
                x.Timestamp \notin Recorded(f, contrib[k].Version)
    /\ \E k \in DOMAIN contrib : \E f \in PlannedFolders(batch) :
          /\ BelowTarget(k)
          /\ targetVersion.Revision # 0
          /\ ~ResetFrom(k)
          /\ \E i \in CallsFor(k, f) : calls[i].file.Timestamp > targetVersion.Revision


\* ------------------------------------------------------------------------
\* C13: a Plan call with a nil target (or a target that carries no version)
\* makes, for the same catalog, database model and batch, the same Builder
\* calls in the same order as a Plan call whose target is the highest
\* catalog version with revision 0.
\* ------------------------------------------------------------------------
\* The highest catalog version with revision 0 (the catalog is sorted once
\* Plan has passed SortByVersion).
HighestTarget ==
    [IsNil |-> FALSE, Version |-> localFolders[Len(localFolders)].Version, Revision |-> 0]

\* The plan the version loop builds for the target t.
PlanFor(t) ==
    PlanVersions(<<>>, localFolders, 1, dbModel, t, batch,
                 IF batch = "schema" THEN <<>> ELSE Batches[batch])

\* The Builder call sequences of a plan p that returns nil.
CallOrders(p) ==
    {u \o d : u \in UpgradeOrders(p, 1), d \in DowngradeOrders(p, Len(p))}

\* The Builder calls made so far, as pairs of file and version.
CallSeq == [i \in DOMAIN calls |-> [file |-> calls[i].file, version |-> calls[i].version]]

\* A folder of the batch has a recorded version above every catalog version.
RecordedAboveCatalog ==
    \E f \in PlannedFolders(batch) :
        /\ localFolders # <<>>
        /\ f \in DOMAIN dbModel
        /\ \E l \in DOMAIN dbModel[f] :
              dbModel[f][l].Version > localFolders[Len(localFolders)].Version

\* C13 as stated.
C13_NilTargetIsHighest ==
    (NoTarget /\ pc = "done" /\ err = "nil" /\ localFolders # <<>>)
        => CallSeq \in CallOrders(PlanFor(HighestTarget))

\* C13 amended: ... provided the database model records, for the folders of
\* the batch, no version above the highest catalog version.
C13_NilTargetIsHighestInCatalog ==
    (NoTarget /\ pc = "done" /\ err = "nil" /\ localFolders # <<>> /\ ~RecordedAboveCatalog)
        => CallSeq \in CallOrders(PlanFor(HighestTarget))

\* A finished plan of a target without version that called the Builder for
\* a catalog of two versions and a populated database model.
C13_Witness ==
    /\ ~targetVersion.IsNil
    /\ targetVersion.Version = 0
    /\ pc = "done"
    /\ err = "nil"
    /\ ~RecordedAboveCatalog
    /\ ~NothingRecorded
    /\ calls # <<>>
    /\ Len(localFolders) = 2
    /\ localFolders[1].Version < localFolders[2].Version


\* ------------------------------------------------------------------------
\* The scenarios of the planner tests: the catalog of testdata/import with a
\* database model made of blocks of the model the downgrade tests pass.
\* Version 1.0.z is written 10z.
\* ------------------------------------------------------------------------
TestCatalog ==
    << Entry(100, 1, {<<"schema", 1000>>, <<"schema", 2000>>, <<"data", 1400>>},
             {"schema", "seed"}),
       Entry(101, 2, {<<"schema", 1200>>, <<"schema", 1500>>,
                      <<"data", 1300>>, <<"data", 1400>>, <<"data", 4800>>,
                      <<"perf", 1350>>, <<"perf", 2800>>}, {}),
       Entry(102, 3, {<<"schema", 1850>>, <<"schema", 2100>>, <<"schema", 2200>>,
                      <<"perf", 2010>>, <<"perf", 2500>>}, {"perf-seed"}),
       Entry(103, 4, {}, {}) >>

\* The applied timestamps of the downgrade tests, one block per folder and
\* version.
TestBlocks ==
    { {<<"schema", 100, 1000>>, <<"schema", 100, 2000>>},
      {<<"schema", 101, 1200>>, <<"schema", 101, 1500>>},
      {<<"schema", 102, 1850>>, <<"schema", 102, 2100>>, <<"schema", 102, 2200>>},
      {<<"data", 100, 1400>>},
      {<<"data", 101, 1300>>, <<"data", 101, 1400>>, <<"data", 101, 4800>>},
      {<<"perf", 101, 1350>>, <<"perf", 101, 2800>>} }

\* The applied timestamps of scenario S3.
S3Applied ==
    {<<"schema", 102, 1850>>, <<"schema", 102, 2100>>, <<"schema", 102, 2200>>,
     <<"data", 101, 1300>>, <<"data", 101, 1400>>, <<"data", 101, 4800>>,
     <<"perf", 101, 1350>>, <<"perf", 101, 2800>>}

\* The targets of the downgrade tests, version 1.0.1 without revision and
\* with revision 2000, and targets one version and one revision lower.
TestTargets == [IsNil : {FALSE}, Version : {100, 101}, Revision : {0, 1000, 2000}]

InitTest ==
    /\ localFolders = TestCatalog
    /\ batch = "perf-seed"
    /\ \E blocks \in SUBSET TestBlocks : dbModel = DatabaseModel(UNION blocks)
    /\ targetVersion \in TestTargets
    /\ pc = "start"
    /\ plan = <<>>
    /\ up = <<>>
    /\ down = <<>>
    /\ calls = <<>>
    /\ contrib = <<>>
    /\ err = "none"
    /\ NoSteps /\ NoGraph /\ NoScan /\ NoText /\ NoWrapper

SpecTest == InitTest /\ [][Next]_vars

\* ------------------------------------------------------------------------
\* C14: scenario S3: with the database recording schema 1.0.2 {1850, 2100,
\* 2200}, data 1.0.1 {1300, 1400, 4800} and perf 1.0.1 {1350, 2800}, target
\* version 1.0.1 with revision 0 and batch perf-seed, the Builder's
\* downgrade calls are, in this order, schema/1.0.2 at 2200, 2100, 1850 and
\* then perf/1.0.1 at 2800.
\* ------------------------------------------------------------------------
\* The downgrade calls made so far: folder, version and timestamp of each.
DownCalls ==
    LET d == SelectSeq(calls, IsDownCall)
    IN [i \in DOMAIN d |-> <<d[i].file.FolderName, d[i].version, d[i].file.Timestamp>>]

\* Plan has returned nil for the inputs of S3 with the target revision r.
S3Done(r) ==
    /\ dbModel = DatabaseModel(S3Applied)
    /\ targetVersion = [IsNil |-> FALSE, Version |-> 101, Revision |-> r]
    /\ batch = "perf-seed"
    /\ pc = "done"
    /\ err = "nil"

\* C14 as stated.
C14_ScenarioS3 ==
    S3Done(0) => DownCalls = << <<"schema", 102, 2200>>, <<"schema", 102, 2100>>,
                                <<"schema", 102, 1850>>, <<"perf", 101, 2800>> >>

\* C14 amended: with revision 0 the downgrade calls are schema/1.0.2 at
\* 2200, 2100, 1850 and no other; perf/1.0.1 at 2800 follows them when the
\* target revision is 2000.
C14_ScenarioS3SchemaOnly ==
    /\ S3Done(0) => DownCalls = << <<"schema", 102, 2200>>, <<"schema", 102, 2100>>,
                                   <<"schema", 102, 1850>> >>
    /\ S3Done(2000) => DownCalls = << <<"schema", 102, 2200>>, <<"schema", 102, 2100>>,
                                      <<"schema", 102, 1850>>, <<"perf", 101, 2800>> >>

\* Plan has returned nil for scenario S3 after three downgrade calls.
C14_Witness == S3Done(0) /\ Len(DownCalls) = 3


\* ------------------------------------------------------------------------
\* C15: a folder of migration type change is forward-only: its catalogue
\* never holds a down artifact and it never contributes a downgrade call to
\* any plan, also for timestamps applied from it that lie above the target
\* version or revision.
\* ------------------------------------------------------------------------
ChangeFolders == {f \in AllFolders : MigrationType[f] = "change"}

FolderRank(f) ==
    IF f = SchemaFolderName \/ batch \notin DOMAIN Batches THEN 0
    ELSE CHOOSE r \in DOMAIN Batches[batch] : Batches[batch][r] = f

C16_TieByFolderOrder ==
    \A i, j \in DOMAIN calls :
        (/\ i < j
         /\ IsFileCall(calls[i]) /\ IsFileCall(calls[j])
         /\ calls[i].file.Dir = calls[j].file.Dir
         /\ calls[i].file.IsDowngrade = calls[j].file.IsDowngrade
         /\ calls[i].file.Timestamp = calls[j].file.Timestamp
         /\ calls[i].file.FolderName # calls[j].file.FolderName)
        => FolderRank(calls[i].file.FolderName) < FolderRank(calls[j].file.FolderName)


\* ------------------------------------------------------------------------
\* C18: a Plan call never modifies its inputs: the catalog (the order of its
\* version entries and the content and order of every up and down list) and
\* the database model are exactly as they were passed in.
\* ------------------------------------------------------------------------
C18_InputsUnchanged ==
    [][localFolders' = localFolders /\ dbModel' = dbModel]_vars


\* ------------------------------------------------------------------------
\* Two Plan calls that run concurrently on one catalog, each with a Builder
\* of its own. localFolders is the backing array the two calls share; pc,
\* plan, up, down, calls and err hold one value per call. SortByVersion is
\* the insertion sort sort.Slice runs on a short slice, one step per
\* comparison and two per swap (the swap reads both elements, then writes
\* both).
\* ------------------------------------------------------------------------
Procs == {1, 2}

\* The position of a call: at is the statement it is about to run, i and j
\* the indices of the insertion sort, tmp the two elements a swap has read.
At(at, i, j, tmp) == [at |-> at, i |-> i, j |-> j, tmp |-> tmp]

InitConc ==
    /\ \E dirs \in {d \in DirLists : Len(d) = MaxEntries} : \E fs \in FileSets(dirs) :
          localFolders = Catalog(dirs, fs, {})
    /\ batch = "schema"
    /\ \E applied \in {a \in AppliedSets : Cardinality(a) <= 1} :
          dbModel = DatabaseModel(applied)
    /\ targetVersion \in Targets
    /\ pc = [p \in Procs |-> At("start", 0, 0, <<>>)]
    /\ plan = [p \in Procs |-> <<>>]
    /\ up = [p \in Procs |-> <<>>]
    /\ down = [p \in Procs |-> <<>>]
    /\ calls = [p \in Procs |-> <<>>]
    /\ err = [p \in Procs |-> "none"]
    /\ contrib = <<>>
    /\ NoSteps /\ NoGraph /\ NoScan /\ NoText /\ NoWrapper

\* Plan up to SortByVersion: the batch schema needs no lookup.
CStart(p) ==
    /\ pc[p].at = "start"
    /\ pc' = [pc EXCEPT ![p] = IF Len(localFolders) >= 2
                                THEN At("less", 2, 2, <<>>)
                                ELSE At("plan", 0, 0, <<>>)]
    /\ UNCHANGED <<localFolders, dbModel, targetVersion, batch, plan, up, down,
                   calls, contrib, err>>
    /\ UNCHANGED nonPlannerVars

\* The loop condition of the insertion sort: j > a && less(j, j-1).
CLess(p) ==
    /\ pc[p].at = "less"
    /\ LET i == pc[p].i
           j == pc[p].j
       IN pc' = [pc EXCEPT ![p] =
                   IF j > 1 /\ VersionLess(localFolders[j], localFolders[j - 1])
                   THEN At("read", i, j, <<>>)
                   ELSE IF i + 1 <= Len(localFolders)
                   THEN At("less", i + 1, i + 1, <<>>)
                   ELSE At("plan", 0, 0, <<>>)]
    /\ UNCHANGED <<localFolders, dbModel, targetVersion, batch, plan, up, down,
                   calls, contrib, err>>
    /\ UNCHANGED nonPlannerVars

\* The swap reads the elements j and j-1.
CRead(p) ==
    /\ pc[p].at = "read"
    /\ pc' = [pc EXCEPT ![p] =
                At("write", pc[p].i, pc[p].j,
                   <<localFolders[pc[p].j], localFolders[pc[p].j - 1]>>)]
    /\ UNCHANGED <<localFolders, dbModel, targetVersion, batch, plan, up, down,
                   calls, contrib, err>>
    /\ UNCHANGED nonPlannerVars

\* The swap writes them back the other way round.
CWrite(p) ==
    /\ pc[p].at = "write"
    /\ localFolders' = [localFolders EXCEPT ![pc[p].j - 1] = pc[p].tmp[1],
                                            ![pc[p].j] = pc[p].tmp[2]]
    /\ pc' = [pc EXCEPT ![p] = At("less", pc[p].i, pc[p].j - 1, <<>>)]
    /\ UNCHANGED <<dbModel, targetVersion, batch, plan, up, down, calls, contrib, err>>
    /\ UNCHANGED nonPlannerVars

\* Plan after SortByVersion up to its first Builder call, on the catalog as
\* the shared array holds it.
CPlan(p) ==
    /\ pc[p].at = "plan"
    /\ LET t == NormalizeTarget(targetVersion)
           q == PlanVersions(<<>>, localFolders, 1, dbModel, t, batch, <<>>)
       IN IF TargetOutOfRange(localFolders, t)
          THEN /\ pc' = [pc EXCEPT ![p] = At("done", 0, 0, <<>>)]
               /\ err' = [err EXCEPT ![p] = "specified target version does not exist"]
               /\ UNCHANGED <<plan, up, down>>
          ELSE /\ plan' = [plan EXCEPT ![p] = q]
               /\ \E u \in UpgradeOrders(q, 1) : up' = [up EXCEPT ![p] = u]
               /\ \E d \in DowngradeOrders(q, Len(q)) : down' = [down EXCEPT ![p] = d]
               /\ pc' = [pc EXCEPT ![p] = At(Position(up'[p], down'[p]), 0, 0, <<>>)]
               /\ err' = [err EXCEPT ![p] = IF pc'[p].at = "done" THEN "nil" ELSE "none"]
    /\ UNCHANGED <<localFolders, dbModel, targetVersion, batch, calls, contrib>>
    /\ UNCHANGED nonPlannerVars

\* The Builder of call p is called for its next up file and returns nil.
CUpgrade(p) ==
    /\ pc[p].at = "upgrade"
    /\ calls' = [calls EXCEPT ![p] = Append(@, Head(up[p]))]
    /\ up' = [up EXCEPT ![p] = Tail(@)]
    /\ pc' = [pc EXCEPT ![p] = At(Position(up'[p], down[p]), 0, 0, <<>>)]
    /\ err' = [err EXCEPT ![p] = IF pc'[p].at = "done" THEN "nil" ELSE "none"]
    /\ UNCHANGED <<localFolders, dbModel, targetVersion, batch, plan, down, contrib>>
    /\ UNCHANGED nonPlannerVars

\* The Builder of call p is called for its next down file and returns nil.
CDowngrade(p) ==
    /\ pc[p].at = "downgrade"
    /\ calls' = [calls EXCEPT ![p] = Append(@, Head(down[p]))]
    /\ down' = [down EXCEPT ![p] = Tail(@)]
    /\ pc' = [pc EXCEPT ![p] = At(Position(up[p], down'[p]), 0, 0, <<>>)]
    /\ err' = [err EXCEPT ![p] = IF pc'[p].at = "done" THEN "nil" ELSE "none"]
    /\ UNCHANGED <<localFolders, dbModel, targetVersion, batch, plan, up, contrib>>
    /\ UNCHANGED nonPlannerVars

NextConc ==
    \E p \in Procs :
        \/ CStart(p)
        \/ CLess(p)
        \/ CRead(p)
        \/ CWrite(p)
        \/ CPlan(p)
        \/ CUpgrade(p)
        \/ CDowngrade(p)

SpecConc == InitConc /\ [][NextConc]_vars

\* ------------------------------------------------------------------------
\* C17: two Plan calls running concurrently on the same catalog with
\* independent Builders are safe: under every interleaving each call makes
\* exactly the Builder call sequence it would make when run alone, and the
\* shared catalog is left intact.
\* ------------------------------------------------------------------------
\* The catalog holds every scanned entry once.
CatalogIntact ==
    \A k, l \in DOMAIN localFolders :
        localFolders[k].Dir = localFolders[l].Dir => k = l

\* The outcome of call p is one that Plan has when it runs alone and
\* SortByVersion leaves the catalog as sorted.
AsAlone(p, sorted) ==
    LET t == NormalizeTarget(targetVersion)
    IN IF TargetOutOfRange(sorted, t)
       THEN err[p] = "specified target version does not exist" /\ calls[p] = <<>>
       ELSE /\ err[p] = "nil"
            /\ calls[p] \in CallOrders(PlanVersions(<<>>, sorted, 1, dbModel, t, batch, <<>>))

C17_ConcurrentPlansSafe ==
    (\A p \in Procs : pc[p].at = "done") =>
        /\ CatalogIntact
        /\ \A p \in Procs : \E sorted \in SortByVersion(localFolders) : AsAlone(p, sorted)


\* ------------------------------------------------------------------------
\* C19: if the target carries a version strictly greater than the highest
\* version in the catalog, Plan fails with the target-version-out-of-range
\* error and the Builder is never called.
\* ------------------------------------------------------------------------
\* The target carries a version above every version of the catalog.
TargetAboveCatalog ==
    /\ ~NoTarget
    /\ localFolders # <<>>
    /\ \A k \in DOMAIN localFolders : localFolders[k].Version < targetVersion.Version

Chars == {"a", ";"}

\* The strings passed to AddCypher: the empty string and one character.
Strs == {<<>>} \cup {<<c>> : c \in Chars}

CypherArgs == UNION {[1..n -> Strs] : n \in 0..MaxArgs}

CommandArgs == UNION {[1..n -> {"exit", "cmd"}] : n \in 0..MaxArgs}

\* The state of the planner while the step sequence is exercised on its own.
PlannerIdle ==
    /\ localFolders = <<>>
    /\ dbModel = <<>>
    /\ targetVersion = NilTarget
    /\ batch = "schema"
    /\ pc = "done"
    /\ plan = <<>>
    /\ up = <<>>
    /\ down = <<>>
    /\ calls = <<>>
    /\ contrib = <<>>
    /\ err = "none"

IsCypher(s) == s.cypher # <<>>

\* What WriteString leaves in a buffer that receives the strings in order.
RECURSIVE WriteStrings(_, _)
WriteStrings(buf, strs) ==
    IF strs = <<>> THEN buf ELSE WriteStrings(buf \o Head(strs), Tail(strs))

InitSteps == PlannerIdle /\ NoSteps /\ NoGraph /\ NoScan /\ NoText /\ NoWrapper

\* Mutant of AddCypher: a new statement step is created on every call.
AddCypherNewStep ==
    /\ \E cypher \in CypherArgs :
          /\ Len(steps) < MaxSteps
          /\ Len(WriteStrings(<<>>, cypher)) <= MaxBuf
          /\ lastCall' = [op |-> "AddCypher", args |-> cypher]
          /\ steps' = IF Len(cypher) = 0 THEN steps
                      ELSE Append(steps, [cypher |-> <<WriteStrings(<<>>, cypher)>>,
                                          command |-> <<>>])
    /\ UNCHANGED nonRendererVars

AddCypher ==
    /\ \E cypher \in CypherArgs :
          LET l == Len(steps)
              reuse == l > 0 /\ IsCypher(steps[l])
          IN /\ reuse \/ l < MaxSteps
             /\ Len(WriteStrings(IF reuse THEN steps[l].cypher[1] ELSE <<>>, cypher)) <= MaxBuf
             /\ lastCall' = [op |-> "AddCypher", args |-> cypher]
             /\ steps' = IF Len(cypher) = 0 THEN steps
                         ELSE IF reuse
                         THEN [steps EXCEPT ![l].cypher =
                                  <<WriteStrings(steps[l].cypher[1], cypher)>>]
                         ELSE Append(steps, [cypher |-> <<WriteStrings(<<>>, cypher)>>,
                                             command |-> <<>>])
    /\ UNCHANGED nonRendererVars

AddCommand ==
    /\ \E args \in CommandArgs :
          /\ Len(steps) < MaxSteps
          /\ lastCall' = [op |-> "AddCommand", args |-> args]
          /\ steps' = IF Len(args) = 0 THEN steps
                      ELSE Append(steps, [cypher |-> <<>>, command |-> args])
    /\ UNCHANGED nonRendererVars

NextSteps ==
    \/ AddCypher
    \/ AddCommand

SpecSteps == InitSteps /\ [][NextSteps]_vars

\* ------------------------------------------------------------------------
\* C20: after any sequence of AddCypher and AddCommand calls the step
\* sequence never contains two adjacent statement steps: AddCypher with at
\* least one string appends to the last step when that step is a statement
\* step and otherwise creates a new statement step, and AddCommand with a
\* non-empty argument list always appends a new command step.
\* ------------------------------------------------------------------------
NoAdjacentStatements ==
    \A k \in 1..(Len(steps) - 1) : ~(IsCypher(steps[k]) /\ IsCypher(steps[k + 1]))

\* What the call recorded in lastCall' has done to the step sequence.
CoalescingRule ==
    LET l == Len(steps)
        args == lastCall'.args
    IN /\ (lastCall'.op = "AddCypher" /\ args # <<>>) =>
             IF l > 0 /\ IsCypher(steps[l])
             THEN /\ Len(steps') = l
                  /\ \A k \in 1..(l - 1) : steps'[k] = steps[k]
                  /\ IsCypher(steps'[l])
                  /\ steps'[l].cypher[1] = WriteStrings(steps[l].cypher[1], args)
             ELSE /\ Len(steps') = l + 1
                  /\ \A k \in 1..l : steps'[k] = steps[k]
                  /\ IsCypher(steps'[l + 1])
                  /\ steps'[l + 1].cypher[1] = WriteStrings(<<>>, args)
       /\ (lastCall'.op = "AddCommand" /\ args # <<>>) =>
             /\ Len(steps') = l + 1
             /\ \A k \in 1..l : steps'[k] = steps[k]
             /\ ~IsCypher(steps'[l + 1])
             /\ steps'[l + 1].command = args

C20_StatementsCoalesce ==
    /\ []NoAdjacentStatements
    /\ [][CoalescingRule]_vars

\* A statement step that two AddCypher calls filled, a command step and a
\* statement step after it.
C20_Witness ==
    /\ Len(steps) = 3
    /\ IsCypher(steps[1]) /\ Len(steps[1].cypher[1]) >= 2
    /\ ~IsCypher(steps[2])
    /\ IsCypher(steps[3])
    /\ lastCall.op = "AddCypher" /\ Len(lastCall.args) = 1


\* ------------------------------------------------------------------------
\* The default Builder (CreateBuilder). The text the Builder writes is a
\* sequence of pieces, one piece per string it formats or passes literally,
\* so a statement buffer is the sequence of the pieces written into it.
\* ------------------------------------------------------------------------
Cypher == "cypher"

Command == "command"

\* planner.allowed_commands of the tests' configuration.
AllowedCommands == ("graph-tool" :> "/app/graph-tool")

\* The node labels after Normalize: the configured ones for data, the
\* defaults for the schema folder and for perf.
NodeLabels ==
    ("schema" :> <<"GraphToolMigration", "SchemaVersion">>) @@
    ("data" :> <<"DataVersion">>) @@
    ("perf" :> <<"GraphToolMigration", "PerfVersion">>)

Piece(k, text, folder, version, ts, labels) ==
    [k |-> k, text |-> text, folder |-> folder, version |-> version,
     ts |-> ts, labels |-> labels]

\* A literal string of the code.
Lit(k) == <<Piece(k, "", "", 0, 0, <<>>)>>

\* What AddCypher and AddCommand do to a step sequence.
StepsAddCypher(e, cypher) ==
    LET l == Len(e)
    IN IF Len(cypher) = 0 THEN e
       ELSE IF l > 0 /\ IsCypher(e[l])
       THEN [e EXCEPT ![l].cypher = <<WriteStrings(e[l].cypher[1], cypher)>>]
       ELSE Append(e, [cypher |-> <<WriteStrings(<<>>, cypher)>>, command |-> <<>>])

StepsAddCommand(e, args) ==
    IF Len(args) = 0 THEN e ELSE Append(e, [cypher |-> <<>>, command |-> args])

\* The files the Builder is called with. A folder the configuration does
\* not declare has no labels.
BuilderFolders == {"schema", "data", "other"}

\* A snapshot is never a downgrade file.
BuilderFiles ==
    {cf \in [FolderName : BuilderFolders, Timestamp : Timestamps,
             FileType : {Cypher, Command}, IsDowngrade : BOOLEAN, IsSnapshot : BOOLEAN] :
        ~(cf.IsSnapshot /\ cf.IsDowngrade)}

\* The lines of a command file: a line that is skipped (empty after
\* trimming, or starting with // or #) or a command line, whose tokens are
\* written with or without double quotes around them.
Token(text, quoted) == [text |-> text, quoted |-> quoted]

CommandLines ==
    {[kind |-> "comment", tokens |-> <<>>],
     [kind |-> "command", tokens |-> <<Token("exit", FALSE)>>],
     [kind |-> "command", tokens |-> <<Token("exit", TRUE), Token("now", FALSE)>>],
     [kind |-> "command", tokens |-> <<Token("graph-tool", TRUE), Token("a b", TRUE)>>],
     [kind |-> "command", tokens |-> <<Token("rm", FALSE), Token("-rf", FALSE)>>]}

\* What os.ReadFile returns for the path of a command file; a statement
\* file is not read.
FileContents ==
    {[ok |-> FALSE, lines |-> <<>>]} \cup
    {[ok |-> TRUE, lines |-> ls] : ls \in UNION {[1..n -> CommandLines] : n \in 0..MaxLines}}

NotRead == [ok |-> TRUE, lines |-> <<>>]

\* The tokens of a line with the surrounding quotes trimmed.
parseArgs(tokens) == [i \in 1..Len(tokens) |-> tokens[i].text]

\* Mutant of addCommandLines: every command is emitted as it is written.
RECURSIVE addCommandLinesAsWritten(_, _, _)
addCommandLinesAsWritten(e, lines, newCommands) ==
    IF lines = <<>>
    THEN [steps |-> e,
          err |-> IF newCommands = 0 THEN "empty-command-file" ELSE "none"]
    ELSE LET l == Head(lines)
             args == parseArgs(l.tokens)
         IN IF l.kind # "command"
            THEN addCommandLinesAsWritten(e, Tail(lines), newCommands)
            ELSE IF args[1] = "exit"
            THEN [steps |-> IF newCommands = 0 THEN StepsAddCommand(e, <<"exit">>) ELSE e,
                  err |-> "none"]
            ELSE addCommandLinesAsWritten(StepsAddCommand(e, args), Tail(lines),
                                          newCommands + 1)

RECURSIVE addCommandLines(_, _, _)
addCommandLines(e, lines, newCommands) ==
    IF lines = <<>>
    THEN [steps |-> e,
          err |-> IF newCommands = 0 THEN "empty-command-file" ELSE "none"]
    ELSE LET l == Head(lines)
             args == parseArgs(l.tokens)
         IN IF l.kind # "command"
            THEN addCommandLines(e, Tail(lines), newCommands)
            ELSE IF args[1] = "exit"
            THEN [steps |-> IF newCommands = 0 THEN StepsAddCommand(e, <<"exit">>) ELSE e,
                  err |-> "none"]
            ELSE IF args[1] \notin DOMAIN AllowedCommands
            THEN [steps |-> e, err |-> "command-not-allowed"]
            ELSE addCommandLines(
                     StepsAddCommand(e, [args EXCEPT ![1] = AllowedCommands[args[1]]]),
                     Tail(lines), newCommands + 1)

addCommand(e, file) ==
    IF ~file.ok THEN [steps |-> e, err |-> "read-error"]
    ELSE addCommandLines(e, file.lines, 0)

Header(cf) ==
    IF cf.IsSnapshot THEN "Starting on"
    ELSE IF cf.FileType = Command /\ cf.IsDowngrade THEN "Downgrading with command from"
    ELSE IF cf.FileType = Command THEN "Running command from"
    ELSE IF cf.IsDowngrade THEN "Downgrading"
    ELSE "Importing"

LabelsOf(folder) == IF folder \in DOMAIN NodeLabels THEN NodeLabels[folder] ELSE <<>>

\* Mutant of Bookkeeping: the up statement is written for a down file too.
BookkeepingAlwaysMerge(e, cf, version) ==
    LET nodeLabels == LabelsOf(cf.FolderName)
        params == StepsAddCypher(e,
                      <<Lit("params-version"),
                        <<Piece("version", "", "", version, 0, <<>>)>>,
                        Lit("params-file"),
                        <<Piece("file", "", "", 0, cf.Timestamp, <<>>)>>,
                        Lit("params-end")>>)
        labels == <<Piece("labels", "", "", 0, 0, nodeLabels)>>
        stmt == StepsAddCypher(params,
                    <<Lit("MERGE"), labels, Lit("node"), Lit("ON CREATE SET created_at"),
                      Lit("SET updated_at, deleted_at = null")>>)
    IN IF cf.IsSnapshot
       THEN [steps |-> StepsAddCypher(e, <<Lit("newline")>>), err |-> "none"]
       ELSE IF Len(nodeLabels) = 0
       THEN [steps |-> e, err |-> "missing-labels"]
       ELSE [steps |-> StepsAddCypher(stmt, <<Lit("blank-line")>>), err |-> "none"]

\* The bookkeeping part of the Builder, after the body of the artifact.
Bookkeeping(e, cf, version) ==
    LET nodeLabels == LabelsOf(cf.FolderName)
        params == StepsAddCypher(e,
                      <<Lit("params-version"),
                        <<Piece("version", "", "", version, 0, <<>>)>>,
                        Lit("params-file"),
                        <<Piece("file", "", "", 0, cf.Timestamp, <<>>)>>,
                        Lit("params-end")>>)
        labels == <<Piece("labels", "", "", 0, 0, nodeLabels)>>
        stmt == IF cf.IsDowngrade
                THEN StepsAddCypher(params,
                         <<Lit("MATCH"), labels, Lit("node"), Lit("SET deleted_at = timestamp()")>>)
                ELSE StepsAddCypher(params,
                         <<Lit("MERGE"), labels, Lit("node"), Lit("ON CREATE SET created_at"),
                           Lit("SET updated_at, deleted_at = null")>>)
    IN IF cf.IsSnapshot
       THEN [steps |-> StepsAddCypher(e, <<Lit("newline")>>), err |-> "none"]
       ELSE IF Len(nodeLabels) = 0
       THEN [steps |-> e, err |-> "missing-labels"]
       ELSE [steps |-> StepsAddCypher(stmt, <<Lit("blank-line")>>), err |-> "none"]

\* The function CreateBuilder returns, applied to cf and version with the
\* step sequence e; file is what the file system holds at cf.Path.
CreateBuilder(e, abs, cf, version, file) ==
    LET commented == StepsAddCypher(e,
                         <<<<Piece("comment", Header(cf), cf.FolderName, version,
                                   cf.Timestamp, <<>>)>>>>)
        path == <<Piece("path", IF abs THEN "abs" ELSE "rel", cf.FolderName, version,
                        cf.Timestamp, <<>>)>>
        body == IF cf.FileType = Command
                THEN addCommand(commented, file)
                ELSE [steps |-> StepsAddCypher(
                                    StepsAddCypher(
                                        StepsAddCypher(commented, <<Lit(":source")>>),
                                        <<path>>),
                                    <<Lit("end-source")>>),
                      err |-> "none"]
    IN IF body.err # "none" THEN body ELSE Bookkeeping(body.steps, cf, version)

\* The number of Builder calls the step sequence shows.
RECURSIVE Comments(_)
Comments(e) ==
    IF e = <<>> THEN 0
    ELSE Comments(Tail(e)) +
         (IF IsCypher(Head(e))
          THEN Cardinality({i \in 1..Len(Head(e).cypher[1]) : Head(e).cypher[1][i].k = "comment"})
          ELSE 0)

Builder ==
    /\ Comments(steps) < MaxArtifacts
    /\ \E cf \in BuilderFiles, version \in Versions :
       \E abs \in (IF cf.FileType = Cypher THEN BOOLEAN ELSE {FALSE}) :
       \E file \in (IF cf.FileType = Cypher THEN {NotRead} ELSE FileContents) :
          /\ LET r == CreateBuilder(steps, abs, cf, version, file)
             IN /\ steps' = r.steps
                /\ lastCall' = [op |-> "Builder",
                                args |-> <<cf, version, file, r.err>>]
    /\ UNCHANGED nonRendererVars

NextBuilder == Builder

SpecBuilder == InitSteps /\ [][NextBuilder]_vars


\* The Builder call a step makes: its file, version, file content and result.
CallFile == lastCall'.args[1]

CallVersion == lastCall'.args[2]

CallContent == lastCall'.args[3]

CallResult == lastCall'.args[4]

BuilderCall == lastCall'.op = "Builder"

\* The command steps the call has appended.
EmittedCommands ==
    {steps'[i].command : i \in {j \in (Len(steps) + 1)..Len(steps') : ~IsCypher(steps'[j])}}

IsCommandLine(l) == l.kind = "command"

WrittenName(l) == parseArgs(l.tokens)[1]

\* The first token of every emitted command is the marker exit, alone, or
\* the path the allow-list gives for the name written on a line of the file.
FirstTokenAllowed ==
    \A c \in EmittedCommands :
        \/ c = <<"exit">>
        \/ \E i \in 1..Len(CallContent.lines) :
              LET l == CallContent.lines[i]
              IN /\ IsCommandLine(l)
                 /\ WrittenName(l) \in DOMAIN AllowedCommands
                 /\ c[1] = AllowedCommands[WrittenName(l)]
                 /\ Tail(c) = Tail(parseArgs(l.tokens))

\* Line i of the file names a command outside the allow-list.
Unlisted(i) ==
    LET l == CallContent.lines[i]
    IN /\ IsCommandLine(l)
       /\ WrittenName(l) # "exit"
       /\ WrittenName(l) \notin DOMAIN AllowedCommands

NoExitBefore(i) ==
    \A j \in 1..(i - 1) :
        ~(IsCommandLine(CallContent.lines[j]) /\ WrittenName(CallContent.lines[j]) = "exit")

Rejected(i) ==
    /\ CallResult = "command-not-allowed"
    /\ \A c \in EmittedCommands : c[1] # WrittenName(CallContent.lines[i])

\* ------------------------------------------------------------------------
\* C21 (as stated): every command step the Builder emits for a command
\* artifact starts with the allow-listed path of the written command name or
\* is the lone marker exit, and a command name outside the allow-list makes
\* the Builder fail with command-not-allowed and is never emitted.
\* ------------------------------------------------------------------------
C21_AllowListOnly ==
    [][(BuilderCall /\ CallFile.FileType = Command) =>
          /\ FirstTokenAllowed
          /\ \A i \in 1..Len(CallContent.lines) : Unlisted(i) => Rejected(i)]_vars

\* C21 (amended): the same, for a command name outside the allow-list on a
\* line that no exit line precedes; the lines after an exit line are not
\* read, so a name written there is not emitted and does not fail the call.
C21_AllowListOnlyBeforeExit ==
    [][(BuilderCall /\ CallFile.FileType = Command) =>
          /\ FirstTokenAllowed
          /\ \A i \in 1..Len(CallContent.lines) :
                Unlisted(i) =>
                   /\ \A c \in EmittedCommands : c[1] # WrittenName(CallContent.lines[i])
                   /\ NoExitBefore(i) => Rejected(i)]_vars

\* A call that emitted an allow-listed command with its path and then failed
\* on a command outside the allow-list.
C21_Witness ==
    /\ lastCall.op = "Builder"
    /\ lastCall.args[1].FileType = Command
    /\ Len(lastCall.args[3].lines) = 2
    /\ lastCall.args[3].lines[1].tokens[1].text = "graph-tool"
    /\ lastCall.args[3].lines[2].tokens[1].text = "rm"
    /\ lastCall.args[4] = "command-not-allowed"
    /\ steps # <<>>
    /\ ~IsCypher(steps[Len(steps)])
    /\ steps[Len(steps)].command = <<"/app/graph-tool", "a b">>


\* The output of a step sequence: the pieces of its statement buffers and
\* one item per command step, in order.
RECURSIVE Output(_)
Output(e) ==
    IF e = <<>> THEN <<>>
    ELSE (IF IsCypher(Head(e)) THEN Head(e).cypher[1]
          ELSE <<Piece("command", "", "", 0, 0, Head(e).command)>>) \o Output(Tail(e))

Keys(s) == [i \in 1..Len(s) |-> s[i].k]

\* What the call has added to the output.
NewOutput == SubSeq(Output(steps'), Len(Output(steps)) + 1, Len(Output(steps')))

OutputAppended == SubSeq(Output(steps'), 1, Len(Output(steps))) = Output(steps)

IsCommentOf(p, cf, version) ==
    /\ p.k = "comment"
    /\ p.folder = cf.FolderName /\ p.version = version /\ p.ts = cf.Timestamp
    /\ p.text = IF cf.FileType = Command
                THEN (IF cf.IsDowngrade THEN "Downgrading with command from"
                      ELSE "Running command from")
                ELSE (IF cf.IsDowngrade THEN "Downgrading" ELSE "Importing")

\* The body of the artifact: the source directive with its path, or one or
\* more command steps.
IsBodyOf(b, cf, version) ==
    IF cf.FileType = Command
    THEN b # <<>> /\ \A i \in 1..Len(b) : b[i].k = "command"
    ELSE /\ Keys(b) = <<":source", "path", "end-source">>
         /\ b[2].folder = cf.FolderName /\ b[2].version = version /\ b[2].ts = cf.Timestamp

\* The parameters and the one bookkeeping statement of the artifact.
IsBookkeepingOf(b, cf, version) ==
    /\ Keys(b) = <<"params-version", "version", "params-file", "file", "params-end">> \o
                 (IF cf.IsDowngrade
                  THEN <<"MATCH", "labels", "node", "SET deleted_at = timestamp()">>
                  ELSE <<"MERGE", "labels", "node", "ON CREATE SET created_at",
                         "SET updated_at, deleted_at = null">>) \o
                 <<"blank-line">>
    /\ b[2].version = version
    /\ b[4].ts = cf.Timestamp
    /\ b[7].labels = LabelsOf(cf.FolderName)

\* The output new of one artifact: its comment, its body and its bookkeeping,
\* in this order and nothing else.
RenderedInOrder(new, cf, version) ==
    LET n == 1 + Cardinality({i \in 1..Len(new) : new[i].k \in {"command", ":source", "path", "end-source"}})
    IN /\ new # <<>>
       /\ IsCommentOf(new[1], cf, version)
       /\ IsBodyOf(SubSeq(new, 2, n), cf, version)
       /\ IsBookkeepingOf(SubSeq(new, n + 1, Len(new)), cf, version)

\* ------------------------------------------------------------------------
\* C22: for every non-snapshot artifact the Builder renders without error
\* the output holds, in this order and before any output of the next
\* artifact, the artifact's comment, its body (source directive or command
\* steps) and exactly one bookkeeping statement for the artifact's version
\* and timestamp: a MERGE clearing deleted_at for an up artifact, a MATCH
\* setting deleted_at for a down artifact.
\* ------------------------------------------------------------------------
C22_CommentBodyBookkeeping ==
    [][BuilderCall =>
          /\ OutputAppended
          /\ (CallResult = "none" /\ ~CallFile.IsSnapshot) =>
                RenderedInOrder(NewOutput, CallFile, CallVersion)]_vars

\* Two artifacts rendered one after the other: an up command file with its
\* command step and MERGE, then a down statement file with its MATCH.
C22_Witness ==
    /\ lastCall.op = "Builder"
    /\ lastCall.args[4] = "none"
    /\ lastCall.args[1].FileType = Cypher
    /\ lastCall.args[1].IsDowngrade /\ ~lastCall.args[1].IsSnapshot
    /\ Len(steps) = 3
    /\ ~IsCypher(steps[2]) /\ steps[2].command[1] = "/app/graph-tool"
    /\ Keys(steps[1].cypher[1]) = <<"comment">>
    /\ \E i \in 1..Len(steps[3].cypher[1]) : steps[3].cypher[1][i].k = "MERGE"
    /\ \E i \in 1..Len(steps[3].cypher[1]) : steps[3].cypher[1][i].k = "MATCH"
    /\ Comments(steps) = 2


\* ------------------------------------------------------------------------
\* The bookkeeping statements run against the graph, and the Database Model
\* Reader (Planner.Version). A node carries its labels, the version in the
\* textual form version.String() writes and semver.NewVersion reads back,
\* the file number, and whether deleted_at is set.
\* ------------------------------------------------------------------------
\* The label configurations: the defaults, and node_labels of the schema
\* folder set to the one label GraphToolMigration; both pass the validation,
\* which rejects only a label listed twice in one folder.
LabelConfigs ==
    {DefaultLabelSets,
     ("schema" :> {"GraphToolMigration"}) @@
     ("perf" :> {"GraphToolMigration", "PerfVersion"})}

\* The nodes the pattern (sm:labels {version: $version, file: $file}) matches.
Matching(g, labels, version, file) ==
    {n \in g : labels \subseteq n.labels /\ n.version = version /\ n.file = file}

\* MERGE ... ON CREATE SET sm.created_at SET sm.updated_at, sm.deleted_at = null
Merge(g, labels, version, file) ==
    IF Matching(g, labels, version, file) = {}
    THEN g \cup {[labels |-> labels, version |-> version, file |-> file, deleted |-> FALSE]}
    ELSE {IF n \in Matching(g, labels, version, file) THEN [n EXCEPT !.deleted = FALSE] ELSE n :
             n \in g}

\* MATCH ... SET sm.deleted_at = timestamp()
Match(g, labels, version, file) ==
    {IF n \in Matching(g, labels, version, file) THEN [n EXCEPT !.deleted = TRUE] ELSE n :
        n \in g}

\* versionCypher for one folder: the version and file of the nodes with the
\* folder's labels and no deleted_at.
queryVersion(g, labels) ==
    {<<n.version, n.file>> : n \in {m \in g : labels \subseteq m.labels /\ ~m.deleted}}

\* Planner.Version: the database model read from the graph.
Version(g, lsets) ==
    DatabaseModel(UNION {{<<f, r[1], r[2]>> : r \in queryVersion(g, lsets[f])} :
                            f \in DOMAIN lsets})

InitGraph ==
    /\ PlannerIdle
    /\ NoSteps
    /\ NoScan
    /\ NoText /\ NoWrapper
    /\ graph = {}
    /\ labelSets \in LabelConfigs
    /\ NoStmts

\* The bookkeeping statement of an up file is run.
MergeStatement ==
    /\ \E a \in Artifacts :
          /\ graph' = Merge(graph, labelSets[a[1]], a[2], a[3])
          /\ lastStmt' = [lastStmt EXCEPT ![a] = "up"]
    /\ UNCHANGED labelSets
    /\ UNCHANGED nonGraphVars

\* The bookkeeping statement of a down file is run.
MatchStatement ==
    /\ \E a \in Artifacts :
          /\ graph' = Match(graph, labelSets[a[1]], a[2], a[3])
          /\ lastStmt' = [lastStmt EXCEPT ![a] = "down"]
    /\ UNCHANGED labelSets
    /\ UNCHANGED nonGraphVars

NextGraph ==
    \/ MergeStatement
    \/ MatchStatement

SpecGraph == InitGraph /\ [][NextGraph]_vars

\* The Reader reports artifact a as applied.
ReadApplied(a) == a[3] \in GetFileTimestamps(Version(graph, labelSets), a[1], a[2])

\* ------------------------------------------------------------------------
\* C23: for each folder, version and timestamp, after any sequence of up and
\* down bookkeeping statements the Database Model Reader reports the
\* timestamp as applied exactly when the most recent bookkeeping statement
\* for it was an up.
\* ------------------------------------------------------------------------
C23_AppliedIffLastUp ==
    \A a \in Artifacts : ReadApplied(a) <=> lastStmt[a] = "up"

\* The same under the default label sets, where no folder's labels are a
\* subset of another folder's.
C23_AppliedIffLastUpDefaultLabels ==
    labelSets = DefaultLabelSets => C23_AppliedIffLastUp


\* ------------------------------------------------------------------------
\* The scanner on one folder-version directory (scanFolder,
\* scanUpDownTypeFolder, scanChangeTypeFolder). An entry of the directory is
\* a sub-directory, the file .keep_version_folder, another file whose name
\* starts with a dot, or a file named <commit>_<direction>_<name>.<ext>
\* (<commit>_<name>.<ext> when direction is empty).
\* ------------------------------------------------------------------------
FileName(commit, direction, name, ext) ==
    [kind |-> "file", commit |-> commit, direction |-> direction, name |-> name, ext |-> ext]

DotName(kind) == [kind |-> kind, commit |-> "", direction |-> "", name |-> "", ext |-> ""]

\* The entries the directories of the model are made of. The commit big
\* stands for a run of digits above the 64-bit range, a-b for a name with a
\* character outside \w.
Names ==
    {FileName(c, d, "a", "cypher") : c \in {"1", "2"}, d \in {"up", "down", "DOWN"}} \cup
    {FileName("0", "up", "a", "cypher"),
     FileName("big", "up", "a", "cypher"),
     FileName("1", "", "a", "cypher"),
     FileName("1", "up", "a-b", "cypher"),
     FileName("2", "up", "a", "RUN"),
     FileName("2", "down", "a", "txt"),
     DotName("keep"), DotName("hidden"), DotName("dir")}

\* The listings ReadDir may return: distinct entries in any order.
Listings ==
    UNION {{l \in [1..n -> Names] : \A i, j \in 1..n : i # j => l[i] # l[j]} : n \in 0..MaxNames}

\* The lower-case form of the words the patterns match case-insensitively.
ToLower ==
    ("up" :> "up") @@ ("down" :> "down") @@ ("DOWN" :> "down") @@ ("" :> "") @@
    ("cypher" :> "cypher") @@ ("run" :> "run") @@ ("RUN" :> "run") @@ ("txt" :> "txt")

IsDigits(c) == c \in {"0", "1", "2", "big"}

IsWord(w) == w \in {"a", "up", "down", "DOWN"}

\* strconv.ParseInt(c, 10, 0) on a run of digits.
ParseInt(c) ==
    IF c = "big" THEN [ok |-> FALSE, value |-> MaxInt64]
    ELSE [ok |-> TRUE, value |-> IF c = "0" THEN 0 ELSE IF c = "1" THEN 1 ELSE 2]

\* FindStringSubmatch of the two patterns: <<>> when the name does not match,
\* else the one match with its named groups.
upDownFilePattern(n) ==
    IF /\ IsDigits(n.commit)
       /\ ToLower[n.direction] \in {"up", "down"}
       /\ IsWord(n.name)
       /\ ToLower[n.ext] \in {"cypher", "run"}
    THEN <<[commit |-> n.commit, direction |-> <<n.direction>>, type |-> n.ext]>>
    ELSE <<>>

changeFilePattern(n) ==
    IF /\ IsDigits(n.commit)
       /\ n.direction = "" \/ IsWord(n.direction)
       /\ IsWord(n.name)
       /\ ToLower[n.ext] \in {"cypher", "run"}
    THEN <<[commit |-> n.commit, direction |-> <<>>, type |-> n.ext]>>
    ELSE <<>>

FindStringSubmatch(pattern, n) ==
    IF pattern = "up_down" THEN upDownFilePattern(n) ELSE changeFilePattern(n)

\* Mutant of parseFileName: the number 0 is not refused.
parseFileNameAllowZero(folderName, n, match) ==
    LET ts == ParseInt(match.commit)
    IN IF ~ts.ok THEN [err |-> "out-of-range", mf |-> <<>>]
       ELSE [err |-> "none",
             mf |-> <<[FolderName |-> folderName, Path |-> n,
                       FileType |-> IF match.type = "run" THEN Command ELSE Cypher,
                       Timestamp |-> ts.value,
                       IsDowngrade |-> match.direction = <<"down">>,
                       IsSnapshot |-> FALSE]>>]

\* Mutant of parseFileName: the direction is compared in lower case.
parseFileNameLower(folderName, n, match) ==
    LET ts == ParseInt(match.commit)
    IN IF ~ts.ok THEN [err |-> "out-of-range", mf |-> <<>>]
       ELSE IF ts.value = 0 THEN [err |-> "forbidden-zero", mf |-> <<>>]
       ELSE [err |-> "none",
             mf |-> <<[FolderName |-> folderName, Path |-> n,
                       FileType |-> IF match.type = "run" THEN Command ELSE Cypher,
                       Timestamp |-> ts.value,
                       IsDowngrade |-> match.direction # <<>> /\ ToLower[match.direction[1]] = "down",
                       IsSnapshot |-> FALSE]>>]

parseFileName(folderName, n, match) ==
    LET ts == ParseInt(match.commit)
    IN IF ~ts.ok THEN [err |-> "out-of-range", mf |-> <<>>]
       ELSE IF ts.value = 0 THEN [err |-> "forbidden-zero", mf |-> <<>>]
       ELSE [err |-> "none",
             mf |-> <<[FolderName |-> folderName, Path |-> n,
                       FileType |-> IF match.type = "run" THEN Command ELSE Cypher,
                       Timestamp |-> ts.value,
                       IsDowngrade |-> match.direction = <<"down">>,
                       IsSnapshot |-> FALSE]>>]

Failed(e, n) == [err |-> e, path |-> <<n>>, Up |-> <<>>, Down |-> <<>>, keep |-> FALSE]

\* The files of set S ordered by the timestamps in ts (timestamps are unique
\* in S, so the sort leaves one order).
ByTimestamp(S, ts) == [k \in DOMAIN ts |-> CHOOSE mf \in S : mf.Timestamp = ts[k]]

\* The loop of scanFolder over the rest of the listing.
RECURSIVE scanFiles(_, _, _, _, _, _)
scanFiles(folderName, list, pattern, upFiles, downFiles, keep) ==
    IF list = <<>>
    THEN [err |-> "none", path |-> <<>>,
          Up |-> ByTimestamp(upFiles, Ascending({mf.Timestamp : mf \in upFiles})),
          Down |-> ByTimestamp(downFiles, Descending({mf.Timestamp : mf \in downFiles})),
          keep |-> keep]
    ELSE LET n == Head(list)
             match == FindStringSubmatch(pattern, n)
             parsed == parseFileName(folderName, n, match[1])
             mf == parsed.mf[1]
         IN IF n.kind = "dir"
            THEN scanFiles(folderName, Tail(list), pattern, upFiles, downFiles, keep)
            ELSE IF n.kind # "file"
            THEN scanFiles(folderName, Tail(list), pattern, upFiles, downFiles,
                           keep \/ n.kind = "keep")
            ELSE IF match = <<>> THEN Failed("invalid-name", n)
            ELSE IF parsed.err # "none" THEN Failed(parsed.err, n)
            ELSE IF mf.IsDowngrade
            THEN IF \E v \in downFiles : v.Timestamp = mf.Timestamp
                 THEN Failed("duplicate-timestamp", n)
                 ELSE scanFiles(folderName, Tail(list), pattern, upFiles,
                                downFiles \cup {mf}, keep)
            ELSE IF \E v \in upFiles : v.Timestamp = mf.Timestamp
                 THEN Failed("duplicate-timestamp", n)
                 ELSE scanFiles(folderName, Tail(list), pattern, upFiles \cup {mf},
                                downFiles, keep)

scanFolder(folderName, list, pattern) == scanFiles(folderName, list, pattern, {}, {}, FALSE)

scanChangeTypeFolder(folderName, list) == scanFolder(folderName, list, "change")

scanUpDownTypeFolder(folderName, list) ==
    LET scripts == scanFolder(folderName, list, "up_down")
        u == Len(scripts.Up)
        d == Len(scripts.Down)
    IN IF scripts.err # "none" THEN scripts
       ELSE IF u # d THEN [scripts EXCEPT !.err = "updown-mismatch", !.Up = <<>>, !.Down = <<>>]
       ELSE IF \E i \in 1..u : scripts.Down[d - i + 1].Timestamp # scripts.Up[i].Timestamp
       THEN [scripts EXCEPT !.err = "updown-mismatch", !.Up = <<>>, !.Down = <<>>]
       ELSE scripts

\* One directory of a folder of either migration type is listed.
InitScanDir ==
    /\ PlannerIdle
    /\ NoSteps
    /\ NoGraph
    /\ disk \in [type : {"up_down", "change"}, list : Listings]
    /\ scanned = [op |-> "none"]
    /\ round = 0
    /\ NoText /\ NoWrapper

ScanDir ==
    /\ scanned.op = "none"
    /\ scanned' = [op |-> "scanDir",
                   res |-> IF disk.type = "up_down"
                           THEN scanUpDownTypeFolder("schema", disk.list)
                           ELSE scanChangeTypeFolder("schema", disk.list)]
    /\ UNCHANGED disk
    /\ UNCHANGED nonScannerVars

NextScanDir == ScanDir

SpecScanDir == InitScanDir /\ [][NextScanDir]_vars


\* The directory of an up_down folder has been scanned.
UpDownScanned == scanned.op = "scanDir" /\ disk.type = "up_down"

Accepted == scanned.res.err = "none"

Timestamps1(files) == [k \in DOMAIN files |-> files[k].Timestamp]

Once(s) == \A i, j \in DOMAIN s : i # j => s[i] # s[j]

\* The files of the listing whose direction token is the word w in any
\* letter case.
FilesOfDirection(w) ==
    {n \in Range(disk.list) : n.kind = "file" /\ upDownFilePattern(n) # <<>> /\
                              ToLower[n.direction] = w}

\* The directory pairs its files: every timestamp of an up file is the
\* timestamp of exactly one up and exactly one down file, and vice versa.
Paired ==
    LET ups == FilesOfDirection("up")
        downs == FilesOfDirection("down")
        count(S, c) == Cardinality({n \in S : ParseInt(n.commit) = ParseInt(c)})
    IN \A n \in ups \cup downs : count(ups, n.commit) = 1 /\ count(downs, n.commit) = 1

\* ------------------------------------------------------------------------
\* C24: whenever the scanner accepts an up_down folder-version directory, its
\* up list and down list hold the same timestamps, each once per direction,
\* and any directory whose up and down files are not paired this way makes
\* the scan fail.
\* ------------------------------------------------------------------------
C24_UpDownPaired ==
    UpDownScanned =>
       /\ Accepted =>
             /\ Once(Timestamps1(scanned.res.Up))
             /\ Once(Timestamps1(scanned.res.Down))
             /\ Range(Timestamps1(scanned.res.Up)) = Range(Timestamps1(scanned.res.Down))
       /\ ~Paired => ~Accepted

\* The part of C24 about the lists of an accepted directory alone.
C24_AcceptedListsPaired ==
    (UpDownScanned /\ Accepted) =>
       /\ Once(Timestamps1(scanned.res.Up))
       /\ Once(Timestamps1(scanned.res.Down))
       /\ Range(Timestamps1(scanned.res.Up)) = Range(Timestamps1(scanned.res.Down))


\* ------------------------------------------------------------------------
\* C26: in an up_down folder the direction token is matched
\* case-insensitively: a file whose direction is the word down in any letter
\* case is catalogued as a downgrade artifact, and one whose direction is the
\* word up in any letter case as an upgrade artifact.
\* ------------------------------------------------------------------------
C26_DirectionAnyCase ==
    (UpDownScanned /\ Accepted) =>
       /\ \A n \in FilesOfDirection("down") :
             \E k \in DOMAIN scanned.res.Down : scanned.res.Down[k].Path = n
       /\ \A n \in FilesOfDirection("up") :
             \E k \in DOMAIN scanned.res.Up : scanned.res.Up[k].Path = n

\* The regular files of the listing: neither directories nor names starting
\* with a dot.
IsRegular(n) == n.kind = "file"

Matches(n) == FindStringSubmatch(disk.type, n) # <<>>

\* What the scan makes of the number of a matching name.
Parsed(n) == parseFileName("schema", n, FindStringSubmatch(disk.type, n)[1])

PositiveInt64(n) ==
    /\ Parsed(n).err = "none"
    /\ Parsed(n).mf[1].Timestamp > 0
    /\ Parsed(n).mf[1].Timestamp <= MaxInt64

\* No entry before position i of the listing makes the scan fail.
NoneFailedBefore(i) == scanFolder("schema", SubSeq(disk.list, 1, i - 1), disk.type).err = "none"

FailsWith(e, n) == scanned.res.err = e /\ scanned.res.path = <<n>>

\* ------------------------------------------------------------------------
\* C27 (as stated): every file name that matches the folder's file-name
\* pattern yields a parseable timestamp that is strictly positive and fits a
\* signed 64-bit integer, and every file name that does not match the pattern
\* makes the scan fail with an invalid-file-name error naming the path.
\* ------------------------------------------------------------------------
C27_MatchParsesElseInvalid ==
    scanned.op = "scanDir" =>
       \A n \in {m \in Range(disk.list) : m.kind # "dir"} :
          IF IsRegular(n) /\ Matches(n)
          THEN PositiveInt64(n)
          ELSE FailsWith("invalid-name", n)

\* C27 (amended): a matching name yields a strictly positive 64-bit timestamp
\* or makes the scan fail (0 is forbidden, a number out of range is a parse
\* error), a regular file whose name does not match makes the scan fail, the
\* error being that of the first failing file of the listing, and every file
\* of an accepted directory has a strictly positive 64-bit timestamp.
C27_MatchParsesOrFails ==
    scanned.op = "scanDir" =>
       /\ \A i \in DOMAIN disk.list :
             LET n == disk.list[i]
             IN IsRegular(n) =>
                   IF Matches(n)
                   THEN PositiveInt64(n) \/
                        /\ ~Accepted
                        /\ NoneFailedBefore(i) => FailsWith(Parsed(n).err, n)
                   ELSE /\ ~Accepted
                        /\ NoneFailedBefore(i) => FailsWith("invalid-name", n)
       /\ Accepted =>
             \A k \in DOMAIN (scanned.res.Up \o scanned.res.Down) :
                LET mf == (scanned.res.Up \o scanned.res.Down)[k]
                IN mf.Timestamp > 0 /\ mf.Timestamp <= MaxInt64

\* A listing whose first file matches and parses and whose second file does
\* not match: the scan fails naming the second file.
C27_Witness ==
    /\ scanned.op = "scanDir"
    /\ Len(disk.list) >= 2
    /\ IsRegular(disk.list[1]) /\ Matches(disk.list[1]) /\ PositiveInt64(disk.list[1])
    /\ IsRegular(disk.list[2]) /\ ~Matches(disk.list[2])
    /\ FailsWith("invalid-name", disk.list[2])


\* ------------------------------------------------------------------------
\* The text forms of the database model (DatabaseModel.String, MarshalJSON).
\* The text is the sequence of the pieces toJSON writes.
\* ------------------------------------------------------------------------
Tok(t, n) == [t |-> t, n |-> n]

\* math.MaxInt, the limit MarshalJSON passes: above every list length.
MaxInt == MaxInt64

\* The pieces written for the timestamps of one version.
RECURSIVE WriteExecuted(_, _)
WriteExecuted(executed, i) ==
    IF i >= Len(executed) THEN <<>>
    ELSE (IF i > 0 THEN <<Tok(",", 0)>> ELSE <<>>) \o <<Tok("num", executed[i + 1])>> \o
         WriteExecuted(executed, i + 1)

\* Mutant of VersionToJSON: the summary is written only above the limit.
VersionToJSONAbove(ver, limitFiles) ==
    LET executed == Ascending(ver.FileTimestamps)
        executedCnt == Len(executed)
        cut == executedCnt > limitFiles
        startAt == IF cut THEN executedCnt - limitFiles ELSE 0
    IN <<Tok("version", ver.Version), Tok("[", 0)>> \o
       (IF cut THEN <<Tok("more", executedCnt - limitFiles)>> ELSE <<>>) \o
       WriteExecuted(executed, startAt) \o <<Tok("]", 0)>>

\* The body of the loop over the versions of a folder.
VersionToJSON(ver, limitFiles) ==
    LET executed == Ascending(ver.FileTimestamps)
        executedCnt == Len(executed)
        cut == executedCnt >= limitFiles
        startAt == IF cut THEN executedCnt - limitFiles ELSE 0
    IN <<Tok("version", ver.Version), Tok("[", 0)>> \o
       (IF cut THEN <<Tok("more", executedCnt - limitFiles)>> ELSE <<>>) \o
       WriteExecuted(executed, startAt) \o <<Tok("]", 0)>>

RECURSIVE VersionsToJSON(_, _, _)
VersionsToJSON(versions, k, limitFiles) ==
    IF k > Len(versions) THEN <<>>
    ELSE (IF k > 1 THEN <<Tok(",", 0)>> ELSE <<>>) \o VersionToJSON(versions[k], limitFiles) \o
         VersionsToJSON(versions, k + 1, limitFiles)

\* toJSON of a model with at most one folder (the folders of a model are
\* written in the order of Go's map iteration).
toJSON(dbm, limitFiles) ==
    <<Tok("{", 0)>> \o
    (IF "schema" \in DOMAIN dbm
     THEN <<Tok("folder", 0), Tok("{", 0)>> \o VersionsToJSON(dbm["schema"], 1, limitFiles) \o
          <<Tok("}", 0)>>
     ELSE <<>>) \o
    <<Tok("}", 0)>>

\* The models shown: the schema folder with one or two versions and up to
\* MaxShown timestamps each.
ShownModels ==
    {<<>>} \cup
    {("schema" :> <<[Version |-> 1, FileTimestamps |-> a]>>) : a \in SUBSET (1..MaxShown)} \cup
    {("schema" :> <<[Version |-> 1, FileTimestamps |-> a], [Version |-> 2, FileTimestamps |-> b]>>) :
        a \in SUBSET (1..MaxShown), b \in {{}, {1, 2, 3}, {2, 3, 4, 5}}}

InitShow ==
    /\ localFolders = <<>>
    /\ dbModel \in ShownModels
    /\ targetVersion = NilTarget
    /\ batch = "schema"
    /\ pc = "done"
    /\ plan = <<>>
    /\ up = <<>>
    /\ down = <<>>
    /\ calls = <<>>
    /\ contrib = <<>>
    /\ err = "none"
    /\ NoSteps
    /\ NoGraph
    /\ NoScan
    /\ NoText /\ NoWrapper

\* DatabaseModel.String
String ==
    /\ shown' = [op |-> "String", text |-> toJSON(dbModel, 3)]
    /\ UNCHANGED <<plannerVars, rendererVars, graphVars, scannerVars, round, wrapperVars>>

MarshalJSON ==
    /\ shown' = [op |-> "MarshalJSON", text |-> toJSON(dbModel, MaxInt)]
    /\ UNCHANGED <<plannerVars, rendererVars, graphVars, scannerVars, round, wrapperVars>>

NextShow ==
    \/ String
    \/ MarshalJSON

SpecShow == InitShow /\ [][NextShow]_vars

\* The pieces of the text between the k-th opening bracket and its closing
\* bracket: what is shown for the k-th version.
Brackets(text, t) == Ascending({i \in DOMAIN text : text[i].t = t})

ShownList(k) ==
    SubSeq(shown.text, Brackets(shown.text, "[")[k] + 1, Brackets(shown.text, "]")[k] - 1)

Summaries(list) == {i \in DOMAIN list : list[i].t = "more"}

\* The numbers of a list, in the order shown.
RECURSIVE Numbers(_)
Numbers(list) ==
    IF list = <<>> THEN <<>>
    ELSE (IF Head(list).t = "num" THEN <<Head(list).n>> ELSE <<>>) \o Numbers(Tail(list))

VersionsShown == IF "schema" \in DOMAIN dbModel THEN DOMAIN dbModel["schema"] ELSE {}

\* ------------------------------------------------------------------------
\* C28: the short display form replaces the leading timestamps of a
\* version's list with the summary '... N more' when and only when the list
\* holds more than three timestamps; a list of three or fewer is shown in
\* full without a summary, and the full JSON form always lists all
\* timestamps in ascending order.
\* ------------------------------------------------------------------------
C28_SummaryOnlyAboveThree ==
    \A k \in VersionsShown :
       LET all == Ascending(dbModel["schema"][k].FileTimestamps)
       IN /\ shown.op = "String" =>
                /\ (Summaries(ShownList(k)) # {}) <=> (Len(all) > 3)
                /\ Len(all) <= 3 => Numbers(ShownList(k)) = all
                /\ Len(all) > 3 =>
                      /\ ShownList(k)[1] = Tok("more", Len(all) - 3)
                      /\ Numbers(ShownList(k)) = SubSeq(all, Len(all) - 2, Len(all))
          /\ shown.op = "MarshalJSON" =>
                /\ Summaries(ShownList(k)) = {}
                /\ Numbers(ShownList(k)) = all


\* ------------------------------------------------------------------------
\* The scanner on a base directory (ScanFolders, scanSchemaAndExtraFolders,
\* open) and the generator of migration file stubs (GenerateMigrationFiles,
\* writeMigrationFile). The base directory holds the schema folder and the
\* folder perf, each a sequence of version directories in the order
\* Readdirnames returns them; there is no snapshots directory. A version
\* directory is [name, list] with list the listing of its entries.
\* ------------------------------------------------------------------------
SchemaMigrationType == "up_down"

\* semver.NewVersion on the directory names of the model: v1.0 and v1.0.0 are
\* the same version, 2.0.0 has no leading v.
SemVer == ("v1.0.0" :> 1) @@ ("v1.0" :> 1) @@ ("v2.0.0" :> 2) @@ ("2.0.0" :> 2)

HasPrefixV(dn) == dn \in {"v1.0.0", "v1.0", "v2.0.0"}

HasPrefixDot(dn) == dn = ".git"

Up1 == FileName("1", "up", "a", "cypher")

Down1 == FileName("1", "down", "a", "cypher")

Change1 == FileName("1", "", "a", "cypher")

Keep == DotName("keep")

SchemaLists == {<<>>, <<Keep>>, <<Up1, Down1>>, <<Up1>>}

PerfLists == {<<>>, <<Up1, Down1>>, <<Change1>>}

\* The sequences of at most n version directories with distinct names.
Dirs(names, lists, n) ==
    UNION {{d \in [1..k -> [name : names, list : lists]] :
              \A i, j \in 1..k : i # j => d[i].name # d[j].name} : k \in 0..n}

ScanFailed(e, p) == [err |-> e, path |-> p, localFolders |-> <<>>]

scanTypeFolder(type, folderName, list) ==
    IF type = "up_down" THEN scanUpDownTypeFolder(folderName, list)
    ELSE scanChangeTypeFolder(folderName, list)

\* Mutant of schemaOp: a directory without up files and without the keep
\* marker is catalogued as well.
schemaOpKeepEmpty(d) ==
    LET scripts == scanTypeFolder(SchemaMigrationType, SchemaFolderName, d.list)
    IN IF scripts.err # "none" THEN [err |-> scripts.err, v |-> <<>>]
       ELSE [err |-> "none",
             v |-> <<[Version |-> SemVer[d.name], name |-> d.name,
                      SchemaFolder |-> [Up |-> scripts.Up, Down |-> scripts.Down],
                      ExtraFolders |-> <<>>]>>]

\* The end of the function scanSchemaAndExtraFolders hands to open for the
\* schema folder, once the directory is scanned: v is <<>> where the code
\* returns nil.
schemaVersion(d, scripts) ==
    IF scripts.err # "none" THEN [err |-> scripts.err, v |-> <<>>]
    ELSE IF Len(scripts.Up) = 0 /\ ~scripts.keep THEN [err |-> "none", v |-> <<>>]
    ELSE [err |-> "none",
          v |-> <<[Version |-> SemVer[d.name], name |-> d.name,
                   SchemaFolder |-> [Up |-> scripts.Up, Down |-> scripts.Down],
                   ExtraFolders |-> <<>>]>>]

schemaOp(d) ==
    schemaVersion(d, scanTypeFolder(SchemaMigrationType, SchemaFolderName, d.list))

\* open on the schema folder: the loop over the rest of the directory names
\* (openSchema), and the end of its body once op has returned r.
RECURSIVE openSchema(_, _)
openSchemaNext(dirs, versions, r) ==
    IF r.err # "none" THEN ScanFailed(r.err, <<SchemaFolderName, Head(dirs).name>>)
    ELSE openSchema(Tail(dirs), versions \o r.v)

openSchema(dirs, versions) ==
    IF dirs = <<>> THEN [err |-> "none", path |-> <<>>, localFolders |-> versions]
    ELSE IF HasPrefixDot(Head(dirs).name) THEN openSchema(Tail(dirs), versions)
    ELSE IF ~HasPrefixV(Head(dirs).name)
    THEN ScanFailed("no-v-prefix", <<SchemaFolderName, Head(dirs).name>>)
    ELSE IF Head(dirs).name \notin DOMAIN SemVer
    THEN ScanFailed("invalid-version", <<SchemaFolderName, Head(dirs).name>>)
    ELSE openSchemaNext(dirs, versions, schemaOp(Head(dirs)))

\* open on a folder of Planner.Folders with the function that attaches the
\* scripts to the first catalog entry of the same version (openExtra), and
\* the end of that function once the directory is scanned.
RECURSIVE openExtra(_, _, _, _)
extraOp(folderName, type, dirs, versions, first, scripts) ==
    IF scripts.err # "none" THEN ScanFailed(scripts.err, <<folderName, Head(dirs).name>>)
    ELSE openExtra(folderName, type, Tail(dirs),
                   [versions EXCEPT ![first].ExtraFolders =
                       <<[Up |-> scripts.Up, Down |-> scripts.Down]>>])

openExtra(folderName, type, dirs, versions) ==
    IF dirs = <<>> THEN [err |-> "none", path |-> <<>>, localFolders |-> versions]
    ELSE LET d == Head(dirs)
             same == {i \in DOMAIN versions : versions[i].Version = SemVer[d.name]}
         IN IF HasPrefixDot(d.name) THEN openExtra(folderName, type, Tail(dirs), versions)
            ELSE IF ~HasPrefixV(d.name)
            THEN ScanFailed("no-v-prefix", <<folderName, d.name>>)
            ELSE IF d.name \notin DOMAIN SemVer
            THEN ScanFailed("invalid-version", <<folderName, d.name>>)
            ELSE IF same = {}
            THEN ScanFailed("unspecified-schema", <<folderName, d.name>>)
            ELSE extraOp(folderName, type, dirs, versions,
                         CHOOSE i \in same : \A j \in same : i <= j,
                         scanTypeFolder(type, folderName, d.list))

\* scanSchemaAndExtraFolders: the schema folder, then the folder perf on the
\* catalog the schema folder gave.
scanExtraFolders(tree, schema) ==
    IF schema.err # "none" THEN schema
    ELSE openExtra("perf", tree.perfType, tree.perf, schema.localFolders)

scanSchemaAndExtraFolders(tree) == scanExtraFolders(tree, openSchema(tree.schema, <<>>))

\* Without a snapshots directory addSnapshotsTo returns nil at once.
ScanFoldersOf(tree) == scanSchemaAndExtraFolders(tree)

\* fmt.Sprintf("%d", revision).
FormatInt == (-1 :> "-1") @@ (0 :> "0") @@ (1 :> "1") @@ (2 :> "2")

\* The name writeMigrationFile gives its file.
writeMigrationFile(migrationName, direction, revision, isUpDown, fileType) ==
    FileName(FormatInt[revision],
             IF isUpDown THEN direction ELSE "",
             migrationName,
             IF fileType = Command THEN "run" ELSE "cypher")

\* os.WriteFile and os.Mkdir on the tree: a file of the same name is
\* replaced, a new entry is listed last.
WithFile(list, n) == IF \E i \in DOMAIN list : list[i] = n THEN list ELSE Append(list, n)

HasDir(dirs, dn) == \E i \in DOMAIN dirs : dirs[i].name = dn

WithDir(dirs, dn) == IF HasDir(dirs, dn) THEN dirs ELSE Append(dirs, [name |-> dn, list |-> <<>>])

WriteIn(dirs, dn, files) ==
    [i \in DOMAIN dirs |->
        IF dirs[i].name # dn THEN dirs[i]
        ELSE [dirs[i] EXCEPT !.list =
                 IF Len(files) = 1 THEN WithFile(@, files[1])
                 ELSE WithFile(WithFile(@, files[1]), files[2])]]

NilVersion == [Original |-> "nil", Revision |-> 0]

\* GenerateMigrationFiles: the error, the paths returned and the tree left
\* on disk. Both folder directories exist in the trees of the model.
GenerateMigrationFiles(tree, folderName, version, migrationName, upType, downType) ==
    LET isUpDown == IF folderName = SchemaFolderName THEN SchemaMigrationType = "up_down"
                    ELSE tree.perfType = "up_down"
        dn == version.Original
        upFile == writeMigrationFile(migrationName, "up", version.Revision, isUpDown, upType)
        downFile == writeMigrationFile(migrationName, "down", version.Revision, isUpDown, downType)
        files == IF isUpDown THEN <<upFile, downFile>> ELSE <<upFile>>
    IN IF folderName \notin {SchemaFolderName, "perf"}
       THEN [err |-> "folder-does-not-exist", paths |-> <<>>, tree |-> tree]
       ELSE IF version = NilVersion \/ version.Revision = 0
       THEN [err |-> "invalid-version-or-revision", paths |-> <<>>, tree |-> tree]
       ELSE [err |-> "none",
             paths |-> [k \in DOMAIN files |-> <<folderName, dn, files[k]>>],
             tree |-> IF folderName = SchemaFolderName
                      THEN [tree EXCEPT !.schema = WriteIn(WithDir(@, dn), dn, files)]
                      ELSE [tree EXCEPT !.perf = WriteIn(WithDir(@, dn), dn, files)]]

DirNames == {"v1.0.0", "v1.0", "v2.0.0"}

SchemaDirs == Dirs(DirNames, SchemaLists, MaxDirs)

PerfDirs == Dirs(DirNames, PerfLists, MaxDirs)

Trees == [schema : SchemaDirs, perf : PerfDirs, perfType : {"up_down", "change"}]

SmallTrees == {t \in Trees : Len(t.schema) <= 1 /\ Len(t.perf) <= 1}

\* Base directories with up to MaxDirs version directories a folder.
InitScan ==
    /\ PlannerIdle
    /\ NoSteps
    /\ NoGraph
    /\ disk \in Trees
    /\ scanned = [op |-> "none"]
    /\ round = 0
    /\ NoText /\ NoWrapper

\* Base directories with at most one version directory a folder, for the
\* generator.
InitGenerate ==
    /\ PlannerIdle
    /\ NoSteps
    /\ NoGraph
    /\ disk \in SmallTrees
    /\ scanned = [op |-> "none"]
    /\ round = 0
    /\ NoText /\ NoWrapper

TargetVersions ==
    {NilVersion} \cup [Original : {"v1.0.0", "v2.0.0", "2.0.0"}, Revision : -1..1]

MigrationNames == {"a", "a-b"}

Generate ==
    /\ scanned.op = "none"
    /\ \E folderName \in {SchemaFolderName, "perf", "other"}, version \in TargetVersions,
          migrationName \in MigrationNames, upType, downType \in {Cypher, Command} :
          LET r == GenerateMigrationFiles(disk, folderName, version, migrationName,
                                          upType, downType)
          IN /\ disk' = r.tree
             /\ scanned' = [op |-> "Generate", base |-> disk, folderName |-> folderName,
                            version |-> version, migrationName |-> migrationName,
                            err |-> r.err, paths |-> r.paths]
    /\ UNCHANGED nonScannerVars

ScanFolders ==
    /\ scanned.op \in {"none", "Generate"}
    /\ scanned' = [op |-> "ScanFolders", before |-> scanned, res |-> ScanFoldersOf(disk)]
    /\ UNCHANGED disk
    /\ UNCHANGED nonScannerVars

NextScan == ScanFolders

SpecScan == InitScan /\ [][NextScan]_vars

NextGenerate == Generate \/ ScanFolders

SpecGenerate == InitGenerate /\ [][NextGenerate]_vars


\* ------------------------------------------------------------------------
\* C25: auxiliary version directories need a schema entry
\* ------------------------------------------------------------------------
FoldersScanned == scanned.op = "ScanFolders"

\* Every version directory of both folders scans without an error of its own.
EveryDirScans ==
    /\ \A i \in DOMAIN disk.schema :
          scanTypeFolder(SchemaMigrationType, SchemaFolderName, disk.schema[i].list).err = "none"
    /\ \A i \in DOMAIN disk.perf :
          scanTypeFolder(disk.perfType, "perf", disk.perf[i].list).err = "none"

SchemaHasDir(v) == \E i \in DOMAIN disk.schema : SemVer[disk.schema[i].name] = v

\* The schema folder has a directory of version v that holds an up script
\* or the marker .keep_version_folder.
SchemaHasEntry(v) ==
    \E i \in DOMAIN disk.schema :
        /\ SemVer[disk.schema[i].name] = v
        /\ \/ \E k \in DOMAIN disk.schema[i].list : disk.schema[i].list[k].kind = "keep"
           \/ Len(scanTypeFolder(SchemaMigrationType, SchemaFolderName,
                                 disk.schema[i].list).Up) > 0

PerfVersions == {SemVer[disk.perf[i].name] : i \in DOMAIN disk.perf}

Catalogued(v) ==
    \E k \in DOMAIN scanned.res.localFolders :
        /\ scanned.res.localFolders[k].Version = v
        /\ scanned.res.localFolders[k].ExtraFolders # <<>>

\* C25 as stated: when no directory fails on its own, the scan accepts the
\* tree if the schema folder has a directory for the version of every
\* directory of perf and fails with unspecified-schema if it has none for
\* one of them; in an accepted catalog the perf scripts sit on entries of
\* versions the schema folder has.
C25_AuxNeedsSchemaDir ==
    (FoldersScanned /\ EveryDirScans) =>
        /\ (\A v \in PerfVersions : SchemaHasDir(v)) => scanned.res.err = "none"
        /\ (\E v \in PerfVersions : ~SchemaHasDir(v)) => scanned.res.err = "unspecified-schema"
        /\ scanned.res.err = "none" =>
              /\ \A v \in PerfVersions : Catalogued(v)
              /\ \A v \in Versions : Catalogued(v) => SchemaHasDir(v)

\* C25 (amended): the same with "has a directory" read as "has a directory
\* that holds an up script or the keep marker": such a directory alone gives
\* the catalog an entry.
C25_AuxNeedsSchemaEntry ==
    (FoldersScanned /\ EveryDirScans) =>
        /\ (\A v \in PerfVersions : SchemaHasEntry(v)) => scanned.res.err = "none"
        /\ (\E v \in PerfVersions : ~SchemaHasEntry(v)) => scanned.res.err = "unspecified-schema"
        /\ scanned.res.err = "none" =>
              /\ \A v \in PerfVersions : Catalogued(v)
              /\ \A v \in Versions : Catalogued(v) => SchemaHasEntry(v)

\* The scan refused a perf directory whose version has an empty schema
\* directory, next to one it could have accepted.
C25_Witness ==
    /\ FoldersScanned
    /\ EveryDirScans
    /\ \E v \in PerfVersions : SchemaHasDir(v) /\ ~SchemaHasEntry(v)
    /\ \E v \in PerfVersions : SchemaHasEntry(v)
    /\ scanned.res.err = "unspecified-schema"


\* ------------------------------------------------------------------------
\* C29: the files of a successful generate call are catalogued by a scan
\* ------------------------------------------------------------------------
\* A scan follows a generate call that returned no error on a base directory
\* the scan accepted before the call.
ScannedAfterGenerate ==
    /\ FoldersScanned
    /\ scanned.before.op = "Generate"
    /\ scanned.before.err = "none"
    /\ ScanFoldersOf(scanned.before.base).err = "none"

GeneratedUpDown ==
    IF scanned.before.folderName = SchemaFolderName THEN SchemaMigrationType = "up_down"
    ELSE disk.perfType = "up_down"

\* The scripts the catalog entry e holds for the folder of the call.
GeneratedScripts(e) ==
    IF scanned.before.folderName = SchemaFolderName THEN <<e.SchemaFolder>> ELSE e.ExtraFolders

HasTimestamp(files, ts) == \E k \in DOMAIN files : files[k].Timestamp = ts

\* C29: after a successful generate call the call has returned one up and
\* one down path (up_down folder) or one path (change folder), and a scan of
\* the base directory succeeds and holds, in the folder and the version of
\* the call, an up script (and for up_down a down script) whose timestamp is
\* the revision.
C29_GeneratedFilesCatalogued ==
    ScannedAfterGenerate =>
        /\ Len(scanned.before.paths) = IF GeneratedUpDown THEN 2 ELSE 1
        /\ scanned.res.err = "none"
        /\ \E k \in DOMAIN scanned.res.localFolders :
              LET e == scanned.res.localFolders[k]
              IN /\ e.Version = SemVer[scanned.before.version.Original]
                 /\ GeneratedScripts(e) # <<>>
                 /\ HasTimestamp(GeneratedScripts(e)[1].Up, scanned.before.version.Revision)
                 /\ GeneratedUpDown =>
                       HasTimestamp(GeneratedScripts(e)[1].Down, scanned.before.version.Revision)

\* The calls for which the property of C29 does hold in the model: a name of
\* word characters, a positive revision, a version written with its leading
\* v, in a version directory that exists already with no file of that
\* revision, or in a new one of the schema folder.
GenerateWellFormedCall ==
    LET c == scanned.before
        dirs == IF c.folderName = SchemaFolderName THEN c.base.schema ELSE c.base.perf
    IN /\ IsWord(c.migrationName)
       /\ c.version.Revision > 0
       /\ HasPrefixV(c.version.Original)
       /\ \/ c.folderName = SchemaFolderName /\ ~HasDir(dirs, c.version.Original)
          \/ \E i \in DOMAIN dirs :
                /\ dirs[i].name = c.version.Original
                /\ \A k \in DOMAIN dirs[i].list :
                      dirs[i].list[k].kind = "file" =>
                          dirs[i].list[k].commit # FormatInt[c.version.Revision]

C29_WellFormedCallCatalogued ==
    (ScannedAfterGenerate /\ GenerateWellFormedCall) =>
        /\ scanned.res.err = "none"
        /\ \E k \in DOMAIN scanned.res.localFolders :
              LET e == scanned.res.localFolders[k]
              IN /\ e.Version = SemVer[scanned.before.version.Original]
                 /\ GeneratedScripts(e) # <<>>
                 /\ HasTimestamp(GeneratedScripts(e)[1].Up, scanned.before.version.Revision)
                 /\ GeneratedUpDown =>
                       HasTimestamp(GeneratedScripts(e)[1].Down, scanned.before.version.Revision)


\* ------------------------------------------------------------------------
\* Two rounds of planning: a successful Plan, the effect of its Builder
\* calls on the database model, and Plan again with the same catalog,
\* target and batch. The catalogs hold no snapshots.
\* ------------------------------------------------------------------------
\* The triples of folder, version and timestamp a database model records.
AppliedOf(dbm) ==
    {a \in UsedFolders \X Versions \X Timestamps :
        /\ a[1] \in DOMAIN dbm
        /\ \E k \in DOMAIN dbm[a[1]] :
              dbm[a[1]][k].Version = a[2] /\ a[3] \in dbm[a[1]][k].FileTimestamps}

\* The effect of the Builder calls cs, in order, on the recorded triples: an
\* up call records its timestamp for its folder and version, a down call
\* removes it.
RECURSIVE ApplyCalls(_, _)
ApplyCalls(applied, cs) ==
    IF cs = <<>> THEN applied
    ELSE LET c == Head(cs)
             a == <<c.file.FolderName, c.version, c.file.Timestamp>>
         IN ApplyCalls(IF c.file.IsDowngrade THEN applied \ {a} ELSE applied \cup {a},
                       Tail(cs))

InitReplan ==
    /\ \E dirs \in DirLists : \E fs \in FileSets(dirs) :
          localFolders = Catalog(dirs, fs, {})
    /\ batch \in {"schema", "perf-seed"}
    /\ \E applied \in AppliedSets : dbModel = DatabaseModel(applied)
    /\ targetVersion \in Targets
    /\ pc = "start"
    /\ plan = <<>>
    /\ up = <<>>
    /\ down = <<>>
    /\ calls = <<>>
    /\ contrib = <<>>
    /\ err = "none"
    /\ NoSteps /\ NoGraph /\ NoScan /\ NoText /\ NoWrapper

\* Plan has returned nil: the database model is read again after the calls
\* were executed, and Plan is called once more. The calls of the first round
\* are kept as history; round becomes one more than their number.
Replan ==
    /\ pc = "done"
    /\ err = "nil"
    /\ round = 0
    /\ dbModel' = DatabaseModel(ApplyCalls(AppliedOf(dbModel), calls))
    /\ pc' = "start"
    /\ plan' = <<>>
    /\ up' = <<>>
    /\ down' = <<>>
    /\ contrib' = <<>>
    /\ err' = "none"
    /\ round' = Len(calls) + 1
    /\ UNCHANGED <<localFolders, targetVersion, batch, calls>>
    /\ UNCHANGED <<rendererVars, graphVars, scannerVars, shown, wrapperVars>>

NextReplan ==
    \/ Plan
    \/ Upgrade
    \/ Downgrade
    \/ Replan

SpecReplan == InitReplan /\ [][NextReplan]_vars

\* ------------------------------------------------------------------------
\* C30: planning converges
\* ------------------------------------------------------------------------
FirstRoundCalls == SubSeq(calls, 1, round - 1)

\* C30: in the second round, planned after the effect of every Builder call
\* of the successful first round was applied to the database model, no
\* Builder call is made.
C30_SecondPlanMakesNoCall ==
    round > 0 => Len(calls) = round - 1

\* The second round makes no call when the first round made no down call.
C30_NoCallAfterUpgradeOnly ==
    (round > 0 /\ \A k \in DOMAIN FirstRoundCalls : ~FirstRoundCalls[k].file.IsDowngrade)
        => Len(calls) = round - 1


\* ------------------------------------------------------------------------
\* C38: an up or down bookkeeping statement run for one folder leaves what
\* the Database Model Reader reports for every other folder unchanged, under
\* every label configuration that passes validation.
\* ------------------------------------------------------------------------
\* The pairs of version and timestamp the Reader reports for folder f.
ReadPairs(g, f) ==
    {<<a[2], a[3]>> : a \in {x \in Artifacts :
                               x[1] = f /\ x[3] \in GetFileTimestamps(Version(g, labelSets), f, x[2])}}

C38_OtherFoldersUntouched ==
    [][\A a \in Artifacts : \A f \in UsedFolders :
          (lastStmt'[a] # lastStmt[a] /\ f # a[1]) =>
              ReadPairs(graph', f) = ReadPairs(graph, f)]_vars

\* The same under the default label sets.
C38_OtherFoldersUntouchedDefaultLabels ==
    [][labelSets = DefaultLabelSets =>
          \A a \in Artifacts : \A f \in UsedFolders :
              (lastStmt'[a] # lastStmt[a] /\ f # a[1]) =>
                  ReadPairs(graph', f) = ReadPairs(graph, f)]_vars

\* ------------------------------------------------------------------------
\* ExecutionSteps.String on a step sequence. A command argument is its text
\* and the number of pairs of double quotes put around it.
\* ------------------------------------------------------------------------
Arg(text) == [text |-> text, quotes |-> 0]

\* strings.Contains(v, " "): my cmd is the one text with a space.
ContainsSpace(v) == v.text = "my cmd"

\* argsToString: the argument vector as the loop leaves it; the text
\* returned is the join of that vector.
argsToString(args) ==
    [i \in DOMAIN args |->
        IF ContainsSpace(args[i]) THEN [args[i] EXCEPT !.quotes = @ + 1] ELSE args[i]]

\* The text String writes for one step.
StepText(v) ==
    IF IsCypher(v) THEN <<"cypher", v.cypher[1]>>
    ELSE IF v.command[1] = Arg("exit") THEN <<"// Nothing to do in this file">>
    ELSE <<">>>", argsToString(v.command)>>

\* The step as String leaves it.
StepAfterString(v) ==
    IF IsCypher(v) \/ v.command[1] = Arg("exit") THEN v
    ELSE [v EXCEPT !.command = argsToString(v.command)]

PrintArgs == UNION {[1..n -> {Arg("exit"), Arg("cmd"), Arg("my cmd")}] : n \in 1..MaxArgs}

PrintSteps ==
    {[cypher |-> <<<<c>>>>, command |-> <<>>] : c \in Chars} \cup
    {[cypher |-> <<>>, command |-> args] : args \in PrintArgs}

InitPrint ==
    /\ PlannerIdle
    /\ steps \in UNION {[1..n -> PrintSteps] : n \in 0..MaxEntries}
    /\ lastCall = [op |-> "none", args |-> <<>>]
    /\ NoGraph /\ NoScan /\ NoText /\ NoWrapper

\* ExecutionSteps.String is called; shown keeps the texts of the calls.
StepsString ==
    /\ Len(shown.text) < MaxPrints
    /\ shown' = [op |-> "ExecutionSteps.String",
                 text |-> Append(shown.text, [k \in DOMAIN steps |-> StepText(steps[k])])]
    /\ steps' = [k \in DOMAIN steps |-> StepAfterString(steps[k])]
    /\ lastCall' = [op |-> "String", args |-> <<>>]
    /\ UNCHANGED <<plannerVars, graphVars, scannerVars, round, wrapperVars>>

NextPrint == StepsString

SpecPrint == InitPrint /\ [][NextPrint]_vars

\* C39: a call of String leaves every step's statement buffer and argument
\* vector unchanged, and returns the text the call before it returned.
C39_StringReadOnly ==
    [][lastCall'.op = "String" =>
          /\ steps' = steps
          /\ shown.text # <<>> => shown'.text[Len(shown'.text)] = shown.text[Len(shown.text)]]_vars

\* ------------------------------------------------------------------------
\* C40: a catalog returned by a successful scan holds at most one entry for
\* a semantic version.
\* ------------------------------------------------------------------------
C40_OneEntryPerVersion ==
    (FoldersScanned /\ scanned.res.err = "none") =>
        \A k, l \in DOMAIN scanned.res.localFolders :
            scanned.res.localFolders[k].Version = scanned.res.localFolders[l].Version => k = l


(***************************************************************************)
(* The supervisor's Neo4jWrapper.  Every region the code runs between      *)
(* serviceSem.Acquire and Release is one step: no region blocks inside.    *)
(* The steps of one goroutine are separate steps, so that the goroutines   *)
(* interleave between their regions as the Go scheduler lets them.         *)
(***************************************************************************)
nonWrapperVars == <<plannerVars, rendererVars, graphVars, scannerVars, round, shown>>

States == {"Stopped", "Failed", "Starting", "Updating Data", "Stopping", "Running"}

\* The utilities a plan's steps start: cypher-shell for a statement batch,
\* the command's first word otherwise; the command exit starts nothing.
UtilityNames == {"cypher-shell", "my-cmd", "exit"}

Plans == UNION {[1..n -> UtilityNames] : n \in 0..MaxUtilities}

\* A nil *TSCmd dereferenced by a clean-up goroutine ends the program.
Live == \A k \in 1..MaxCalls : cleaner[k].pc # "panic"

\* WaitTS on a handle returns once its process has exited; Wait skips a nil
\* handle.
WaitTSReturns(cmd) == IF cmd = 0 THEN TRUE ELSE procs[cmd].st = "exited"

NextProc == Cardinality({p \in 1..MaxProcs : procs[p].st # "none"}) + 1

\* Some goroutine other than self is about to run, or is inside, a region
\* under serviceSem, so that a TryAcquire made now may find it taken.
SemBusy(self) ==
    \/ \E p \in 1..MaxProcs :
           \/ waiter[p].pc \in {"make", "fin"}
           \/ waiter[p].pc = "spawned" /\ spinUpMux = 0
    \/ \E k \in 1..MaxCalls :
           cleaner[k].pc = "wait" /\ WaitTSReturns(cleaner[k].cmd)
    \/ \E k \in 1..MaxCalls :
           /\ k # self
           /\ \/ restarter[k].pc = "spawned"
              \/ restarter[k].pc = "wait" /\ WaitTSReturns(restarter[k].cmd)
    \/ \E u \in Updaters : updater[u].pc = "defer"

\* What a Start call made now can do: TryAcquire fails, a handle is there
\* already, StartCmd fails, or the process is started.
StartResults(self) ==
    (IF SemBusy(self) THEN {"busy"} ELSE {}) \cup
    (IF serviceCmd # 0 THEN {"already"} ELSE {"spawnFailed", "started"})

StartCall(res) ==
    /\ serviceState' = CASE res = "started" -> "Starting"
                         [] res = "spawnFailed" -> "Failed"
                         [] OTHER -> serviceState
    /\ serviceCmd' = IF res = "started" THEN NextProc ELSE serviceCmd
    /\ procs' = IF res = "started"
                THEN [procs EXCEPT ![NextProc].st = "running"]
                ELSE procs
    /\ waiter' = IF res = "started"
                 THEN [waiter EXCEPT ![NextProc].pc = "spawned"]
                 ELSE waiter

\* What a Stop call made now can do.  Process.Signal fails on a process that
\* has exited and been waited for; whether an exited process has been waited
\* for yet depends on the goroutines in WaitTS, so both outcomes are kept.
StopResults ==
    IF serviceState = "Stopping" THEN {"ignored"}
    ELSE IF serviceCmd = 0 THEN {"nothing"}
    ELSE IF procs[serviceCmd].st = "exited" THEN {"signalError", "stopped"}
    ELSE {"stopped"}

StopCall(k, res) ==
    /\ cancelWaitingChan' = IF res \in {"signalError", "stopped"} /\ cancelWaitingChan # "nil"
                            THEN "full"
                            ELSE cancelWaitingChan
    /\ procs' = IF res = "stopped"
                THEN [procs EXCEPT ![serviceCmd].signals = @ + 1]
                ELSE procs
    /\ serviceState' = IF res = "stopped" THEN "Stopping" ELSE serviceState
    /\ cleaner' = IF res = "stopped"
                  THEN [cleaner EXCEPT ![k].pc = "spawned"]
                  ELSE cleaner

StopReturn(res) == IF res \in {"ignored", "stopped"} THEN "nil" ELSE "err"

ClientCalled(op, ret) ==
    [client EXCEPT !.calls = @ + 1, !.op = op, !.ret = ret, !.from = serviceState,
                   !.started = NextProc - 1]

ClientIdle == Live /\ client.pc = "idle" /\ client.calls < client.budget

Start ==
    /\ ClientIdle
    /\ serviceCmd # 0 \/ NextProc <= MaxProcs
    /\ \E res \in StartResults(0) :
           /\ StartCall(res)
           /\ client' = ClientCalled("Start", IF res = "started" THEN "nil" ELSE "err")
    /\ UNCHANGED <<utilsCmd, cancelWaitingChan, spinUpMux, utilsMux, updater,
                   cleaner, restarter, returned, nonWrapperVars>>

Stop ==
    /\ ClientIdle
    /\ \E res \in StopResults :
           /\ StopCall(client.calls + 1, res)
           /\ client' = ClientCalled("Stop", StopReturn(res))
    /\ UNCHANGED <<serviceCmd, utilsCmd, spinUpMux, utilsMux, updater, waiter,
                   restarter, returned, nonWrapperVars>>

Restart ==
    /\ ClientIdle
    /\ \E res \in StopResults :
           /\ StopCall(client.calls + 1, res)
           /\ client' = ClientCalled("Restart", StopReturn(res))
    /\ restarter' = [restarter EXCEPT ![client.calls + 1].pc = "spawned"]
    /\ UNCHANGED <<serviceCmd, utilsCmd, spinUpMux, utilsMux, updater, waiter,
                   returned, nonWrapperVars>>

\* StopAll first locks utilsMux, which blocks while the mutex is held.
StopAllLock ==
    /\ ClientIdle
    /\ client' = [client EXCEPT !.pc = "StopAll"]
    /\ UNCHANGED <<serviceState, serviceCmd, utilsCmd, cancelWaitingChan, spinUpMux,
                   utilsMux, procs, updater, waiter, cleaner, restarter, returned,
                   nonWrapperVars>>

\* With the mutex: signal every utility in the map, then Stop; the deferred
\* Unlock runs on both returns.  Signal fails on a utility that has exited
\* and whose waitAndClean has not removed it from the map yet.
StopAll ==
    /\ Live
    /\ client.pc = "StopAll"
    /\ utilsMux = "unlocked"
    /\ IF \E u \in Updaters : updater[u].pc = "clean"
       THEN /\ client' = [ClientCalled("StopAll", "err") EXCEPT !.pc = "idle"]
            /\ UNCHANGED <<serviceState, cancelWaitingChan, procs, cleaner>>
       ELSE \E res \in StopResults :
               /\ StopCall(client.calls + 1, res)
               /\ client' = [ClientCalled("StopAll", StopReturn(res)) EXCEPT !.pc = "idle"]
    /\ UNCHANGED <<serviceCmd, utilsCmd, spinUpMux, utilsMux, updater, waiter,
                   restarter, returned, nonWrapperVars>>


\* RefreshData enters update, whose first region switches Running to
\* Updating Data and refuses every other state.
RefreshData(u) ==
    /\ Live
    /\ updater[u].pc = "idle"
    /\ IF serviceState # "Running"
       THEN /\ updater' = [updater EXCEPT ![u].pc = "done", ![u].ret = "err"]
            /\ UNCHANGED serviceState
       ELSE /\ updater' = [updater EXCEPT ![u].pc = "plan"]
            /\ serviceState' = "Updating Data"
    /\ UNCHANGED <<serviceCmd, utilsCmd, cancelWaitingChan, spinUpMux, utilsMux, procs,
                   client, waiter, cleaner, restarter, returned, nonWrapperVars>>

\* The version read, the scan, the drop or Plan fails and update returns the
\* error; or the plan is empty (or a dry run) and update returns nil; or the
\* plan has steps to run.
updatePlan(u) ==
    /\ Live
    /\ updater[u].pc = "plan"
    /\ \/ updater' = [updater EXCEPT ![u].pc = "defer", ![u].err = TRUE]
       \/ \E todo \in Plans :
              updater' = [updater EXCEPT
                             ![u].pc = IF todo = <<>> THEN "defer" ELSE "step",
                             ![u].todo = todo]
    /\ UNCHANGED <<serviceState, serviceCmd, utilsCmd, cancelWaitingChan, spinUpMux,
                   utilsMux, procs, client, waiter, cleaner, restarter, returned,
                   nonWrapperVars>>

\* The loop's break on a failed step is followed by "return nil".
StepFailed(r) ==
    [r EXCEPT !.pc = "defer", !.err = FALSE, !.failed = TRUE]

\* The step succeeded (or was the command exit): the loop goes on.
StepDone(r) ==
    [r EXCEPT !.pc = IF Len(r.todo) = 1 THEN "defer" ELSE "step",
              !.todo = Tail(r.todo),
              !.err = FALSE]

\* One turn of the step loop up to the start of the utility: startUtility
\* locks utilsMux and returns with it locked when the name is in the map or
\* when StartCmd fails; else it records the utility and unlocks.
startUtility(u) ==
    /\ Live
    /\ updater[u].pc = "step"
    /\ IF Head(updater[u].todo) = "exit"
       THEN /\ updater' = [updater EXCEPT ![u] = StepDone(@)]
            /\ UNCHANGED <<utilsMux, utilsCmd>>
       ELSE /\ utilsMux = "unlocked"
            /\ \/ /\ Head(updater[u].todo) \in utilsCmd
                  /\ utilsMux' = u
                  /\ updater' = [updater EXCEPT ![u] = StepFailed(@)]
                  /\ UNCHANGED utilsCmd
               \/ /\ Head(updater[u].todo) \notin utilsCmd
                  /\ \/ /\ utilsMux' = u
                        /\ updater' = [updater EXCEPT ![u] = StepFailed(@)]
                        /\ UNCHANGED utilsCmd
                     \/ /\ utilsCmd' = utilsCmd \cup {Head(updater[u].todo)}
                        /\ updater' = [updater EXCEPT
                                          ![u].pc = "wait",
                                          ![u].ranAfterFailure = updater[u].failed]
                        /\ UNCHANGED utilsMux
    /\ UNCHANGED <<serviceState, serviceCmd, cancelWaitingChan, spinUpMux, procs,
                   client, waiter, cleaner, restarter, returned, nonWrapperVars>>

\* The utility exits, with success or not, and WaitTS returns its result.
utilityExit(u) ==
    /\ Live
    /\ updater[u].pc = "wait"
    /\ \E failed \in BOOLEAN :
           updater' = [updater EXCEPT ![u].pc = "clean", ![u].err = failed]
    /\ UNCHANGED <<serviceState, serviceCmd, utilsCmd, cancelWaitingChan, spinUpMux,
                   utilsMux, procs, client, waiter, cleaner, restarter, returned,
                   nonWrapperVars>>

\* waitAndClean locks utilsMux again, removes the utility from the map and
\* returns the utility's result to the step loop.
waitAndClean(u) ==
    /\ Live
    /\ updater[u].pc = "clean"
    /\ utilsMux = "unlocked"
    /\ utilsCmd' = utilsCmd \ {Head(updater[u].todo)}
    /\ updater' = [updater EXCEPT
                      ![u] = IF updater[u].err THEN StepFailed(@) ELSE StepDone(@)]
    /\ UNCHANGED <<serviceState, serviceCmd, cancelWaitingChan, spinUpMux, utilsMux,
                   procs, client, waiter, cleaner, restarter, returned, nonWrapperVars>>

\* update's deferred function: Failed when update returns an error, else
\* Running; RefreshData returns what update returns.
updateDefer(u) ==
    /\ Live
    /\ updater[u].pc = "defer"
    /\ serviceState' = IF updater[u].err THEN "Failed" ELSE "Running"
    /\ updater' = [updater EXCEPT
                      ![u].pc = "done",
                      ![u].ret = IF updater[u].err THEN "err" ELSE "nil"]
    /\ UNCHANGED <<serviceCmd, utilsCmd, cancelWaitingChan, spinUpMux, utilsMux, procs,
                   client, waiter, cleaner, restarter, returned, nonWrapperVars>>

\* WaitForNeo4j locks spinUpMux and reads the state through State().
WaitForNeo4j(p) ==
    /\ Live
    /\ waiter[p].pc = "spawned"
    /\ spinUpMux = 0
    /\ spinUpMux' = p
    /\ waiter' = [waiter EXCEPT
                     ![p].pc = IF serviceState = "Starting" THEN "make" ELSE "return"]
    /\ UNCHANGED <<serviceState, serviceCmd, utilsCmd, cancelWaitingChan, utilsMux,
                   procs, client, updater, cleaner, restarter, returned, nonWrapperVars>>

\* isStarting: the channel is made under the semaphore.
waitMakeChan(p) ==
    /\ Live
    /\ waiter[p].pc = "make"
    /\ cancelWaitingChan' = "empty"
    /\ waiter' = [waiter EXCEPT ![p].pc = "loop"]
    /\ UNCHANGED <<serviceState, serviceCmd, utilsCmd, spinUpMux, utilsMux, procs,
                   client, updater, cleaner, restarter, returned, nonWrapperVars>>

\* The select loop ends on a value in the channel, on a tick after the five
\* minutes, or on a tick at which Bolt answers (a Neo4j process is running).
waitLoop(p) ==
    /\ Live
    /\ waiter[p].pc = "loop"
    /\ \/ /\ cancelWaitingChan = "full"
          /\ cancelWaitingChan' = "empty"
          /\ waiter' = [waiter EXCEPT ![p].pc = "fin", ![p].cancelled = TRUE]
       \/ /\ waiter' = [waiter EXCEPT ![p].pc = "fin"]
          /\ UNCHANGED cancelWaitingChan
       \/ /\ \E q \in 1..MaxProcs : procs[q].st = "running"
          /\ waiter' = [waiter EXCEPT ![p].pc = "fin", ![p].connected = TRUE]
          /\ UNCHANGED cancelWaitingChan
    /\ UNCHANGED <<serviceState, serviceCmd, utilsCmd, spinUpMux, utilsMux, procs,
                   client, updater, cleaner, restarter, returned, nonWrapperVars>>

WaitStateAlwaysNil(state, cancelled) == "nil"

\* The value WaitForNeo4j returns.
WaitState(state, cancelled) ==
    IF state = "Running" \/ cancelled THEN "nil" ELSE "err"

StateAfterWait(r) ==
    IF r.connected THEN "Running"
    ELSE IF ~r.cancelled THEN "Failed"
    ELSE serviceState

\* After the loop, under the semaphore until the return: the channel is
\* closed and set to nil, the state is set, the result is computed.
waitFinish(p) ==
    /\ Live
    /\ waiter[p].pc = "fin"
    /\ cancelWaitingChan' = "nil"
    /\ serviceState' = StateAfterWait(waiter[p])
    /\ returned' = [op |-> "WaitForNeo4j", starting |-> TRUE,
                    cancelled |-> waiter[p].cancelled,
                    timedOut |-> ~waiter[p].connected /\ ~waiter[p].cancelled,
                    state |-> StateAfterWait(waiter[p]),
                    ret |-> WaitState(StateAfterWait(waiter[p]), waiter[p].cancelled)]
    /\ spinUpMux' = 0
    /\ waiter' = [waiter EXCEPT ![p].pc = "done"]
    /\ UNCHANGED <<serviceCmd, utilsCmd, utilsMux, procs, client, updater, cleaner,
                   restarter, nonWrapperVars>>

\* The service was not starting: the result is computed from the state as
\* it is read, without the semaphore, on the way out.
waitReturn(p) ==
    /\ Live
    /\ waiter[p].pc = "return"
    /\ returned' = [op |-> "WaitForNeo4j", starting |-> FALSE, cancelled |-> FALSE,
                    timedOut |-> FALSE, state |-> serviceState,
                    ret |-> WaitState(serviceState, FALSE)]
    /\ spinUpMux' = 0
    /\ waiter' = [waiter EXCEPT ![p].pc = "done"]
    /\ UNCHANGED <<serviceState, serviceCmd, utilsCmd, cancelWaitingChan, utilsMux,
                   procs, client, updater, cleaner, restarter, nonWrapperVars>>

\* A Neo4j process exits after an Interrupt signal.
processExit(p) ==
    /\ Live
    /\ procs[p].st = "running"
    /\ procs[p].signals > 0
    /\ procs' = [procs EXCEPT ![p].st = "exited"]
    /\ UNCHANGED <<serviceState, serviceCmd, utilsCmd, cancelWaitingChan, spinUpMux,
                   utilsMux, client, updater, waiter, cleaner, restarter, returned,
                   nonWrapperVars>>

\* Stop's goroutine starts: it evaluates w.serviceCmd, without the semaphore,
\* when it is scheduled, and calls WaitTS on it.
cleanupWait(k) ==
    /\ Live
    /\ cleaner[k].pc = "spawned"
    /\ cleaner' = [cleaner EXCEPT
                      ![k].pc = IF serviceCmd = 0 THEN "panic" ELSE "wait",
                      ![k].cmd = serviceCmd]
    /\ UNCHANGED <<serviceState, serviceCmd, utilsCmd, cancelWaitingChan, spinUpMux,
                   utilsMux, procs, client, updater, waiter, restarter, returned,
                   nonWrapperVars>>

\* The process it waits for has exited: the handle is dropped and the state
\* set to Stopped, under the semaphore.
cleanup(k) ==
    /\ Live
    /\ cleaner[k].pc = "wait"
    /\ WaitTSReturns(cleaner[k].cmd)
    /\ serviceCmd' = 0
    /\ serviceState' = "Stopped"
    /\ cleaner' = [cleaner EXCEPT ![k].pc = "done"]
    /\ UNCHANGED <<utilsCmd, cancelWaitingChan, spinUpMux, utilsMux, procs, client,
                   updater, waiter, restarter, returned, nonWrapperVars>>

\* Restart's goroutine starts: Wait copies the handle under the semaphore.
Wait(k) ==
    /\ Live
    /\ restarter[k].pc = "spawned"
    /\ restarter' = [restarter EXCEPT ![k].pc = "wait", ![k].cmd = serviceCmd]
    /\ UNCHANGED <<serviceState, serviceCmd, utilsCmd, cancelWaitingChan, spinUpMux,
                   utilsMux, procs, client, updater, waiter, cleaner, returned,
                   nonWrapperVars>>

\* Wait returns once the copied handle's process has exited (at once for a
\* nil handle), and the goroutine calls Start.
restartStart(k) ==
    /\ Live
    /\ restarter[k].pc = "wait"
    /\ WaitTSReturns(restarter[k].cmd)
    /\ serviceCmd # 0 \/ NextProc <= MaxProcs
    /\ \E res \in StartResults(k) :
           /\ StartCall(res)
           /\ restarter' = [restarter EXCEPT ![k].pc = "done", ![k].ret = res]
    /\ UNCHANGED <<utilsCmd, cancelWaitingChan, spinUpMux, utilsMux, client, updater,
                   cleaner, returned, nonWrapperVars>>

InitWrapper ==
    /\ PlannerIdle /\ NoSteps /\ NoGraph /\ NoScan /\ NoText
    /\ NewWrapper(MaxCalls)

NextWrapper ==
    \/ Start
    \/ Stop
    \/ Restart
    \/ StopAllLock
    \/ StopAll
    \/ \E u \in Updaters : RefreshData(u)
    \/ \E u \in Updaters : updatePlan(u)
    \/ \E u \in Updaters : startUtility(u)
    \/ \E u \in Updaters : utilityExit(u)
    \/ \E u \in Updaters : waitAndClean(u)
    \/ \E u \in Updaters : updateDefer(u)
    \/ \E p \in 1..MaxProcs : WaitForNeo4j(p)
    \/ \E p \in 1..MaxProcs : waitMakeChan(p)
    \/ \E p \in 1..MaxProcs : waitLoop(p)
    \/ \E p \in 1..MaxProcs : waitFinish(p)
    \/ \E p \in 1..MaxProcs : waitReturn(p)
    \/ \E p \in 1..MaxProcs : processExit(p)
    \/ \E k \in 1..MaxCalls : cleanupWait(k)
    \/ \E k \in 1..MaxCalls : cleanup(k)
    \/ \E k \in 1..MaxCalls : Wait(k)
    \/ \E k \in 1..MaxCalls : restartStart(k)

SpecWrapper == InitWrapper /\ [][NextWrapper]_vars


\* C32: whenever no caller is inside a locked region of startUtility,
\* StopAll, AllStates or WaitAll (every state of this model, whose locked
\* regions are single steps), utilsMux is unlocked: no return path of
\* startUtility leaves it locked behind.
C32_UtilsMuxReleased == \A u \in Updaters : utilsMux # u

Applying(u) == updater[u].pc \in {"plan", "step", "wait", "clean", "defer"}

\* C33: a RefreshData call that has returned after one of its steps failed
\* returned an error, and ran no step after the failed one; it returned nil
\* only when no step failed.
C33_FailedStepFailsRefresh ==
    \A u \in Updaters :
        updater[u].pc = "done" =>
            /\ ~updater[u].ranAfterFailure
            /\ updater[u].failed => updater[u].ret = "err"

\* The part of C33 the step loop does keep: no utility is started after a
\* failed step.
C33_NoStepAfterFailure == \A u \in Updaters : ~updater[u].ranAfterFailure

\* C34: once the state is Stopping, every step leaves it Stopping or makes it
\* Stopped: no WaitForNeo4j or update that finishes meanwhile sets Running or
\* Failed.
C34_StoppingUntilStopped ==
    [][serviceState = "Stopping" => serviceState' \in {"Stopping", "Stopped"}]_vars

\* C35: the state is Starting, Running, Updating Data or Stopping only while
\* there is a process handle, and Stopped only while there is none.
C35_StateAgreesWithHandle ==
    /\ serviceState \in {"Starting", "Running", "Updating Data", "Stopping"} => serviceCmd # 0
    /\ serviceState = "Stopped" => serviceCmd = 0

\* C36: at most one RefreshData call is between its switch to Updating Data
\* and its deferred state change at any time.
C36_OneUpdateAtATime == \A u, v \in Updaters : Applying(u) /\ Applying(v) => u = v

InitRestart ==
    /\ PlannerIdle /\ NoSteps /\ NoGraph /\ NoScan /\ NoText
    /\ NewWrapper(MaxCalls)

NextRestart ==
    \/ Start
    \/ Restart
    \/ \E p \in 1..MaxProcs : WaitForNeo4j(p)
    \/ \E p \in 1..MaxProcs : waitMakeChan(p)
    \/ \E p \in 1..MaxProcs : waitLoop(p)
    \/ \E p \in 1..MaxProcs : waitFinish(p)
    \/ \E p \in 1..MaxProcs : waitReturn(p)
    \/ \E p \in 1..MaxProcs : processExit(p)
    \/ \E k \in 1..MaxCalls : cleanupWait(k)
    \/ \E k \in 1..MaxCalls : cleanup(k)
    \/ \E k \in 1..MaxCalls : Wait(k)
    \/ \E k \in 1..MaxCalls : restartStart(k)

SpecRestart ==
    /\ InitRestart
    /\ [][NextRestart]_vars
    /\ \A p \in 1..MaxProcs :
           /\ WF_vars(WaitForNeo4j(p))
           /\ WF_vars(waitMakeChan(p))
           /\ WF_vars(waitLoop(p))
           /\ WF_vars(waitFinish(p))
           /\ WF_vars(waitReturn(p))
           /\ WF_vars(processExit(p))
    /\ \A k \in 1..MaxCalls :
           /\ WF_vars(cleanupWait(k))
           /\ WF_vars(cleanup(k))
           /\ WF_vars(Wait(k))
           /\ WF_vars(restartStart(k))

\* The client's last call was Restart, made with the state Running, and it
\* returned nil.
RestartedRunning ==
    client.op = "Restart" /\ client.from = "Running" /\ client.ret = "nil"

\* A Neo4j process has been started since the client's last call.
StartedSince == NextProc - 1 > client.started

\* C31: whenever Restart is called on a Running service and returns nil, a
\* new Neo4j process is started in the end.
C31_RestartStartsAgain == RestartedRunning ~> StartedSince

====
